---- MODULE Spec2Model ----
(***************************************************************************)
(* A model of the caption and linguistic-annotation pipeline of animebook: *)
(*   - the captions store (src/stores/captions.ts): tracks, playback time, *)
(*     active caption ids, and the asynchronous loadCaptions orchestrator; *)
(*   - the analyzer chain (src/server/services/tokenizer.ts, kuromoji.ts   *)
(*     and the remote segmenter of src/unnamed/part_006).                  *)
(* Each part has its own specification over the shared variables; the      *)
(* variables of the other parts stay at their initial values.              *)
(***************************************************************************)
EXTENDS Integers, Sequences, FiniteSets, TLC

\* ------------------------------------------------------------------------
\* Bounds of the model
\* ------------------------------------------------------------------------

\* loadCaptions calls made in one behaviour
MaxLoads == 2
\* playback times handed to setCurrentTime are 0..MaxTime
MaxTime == 5
\* concurrent callers of the analyzers (of analyzeSudachi, of tokenize)
MaxCallers == 2
\* clock ticks of one behaviour of the remote segmenter
MaxTicks == 3

\* initialisation promises alive at one time
MaxPromises == 6

\* characters of a text given to the fallback segmentation
MaxTextLen == 3

\* blocks of a subtitle file of mixed content
MaxBlocks == 2
\* entries of a well-formed subtitle file
MaxCaptions == 3
\* timestamps of a subtitle file are 0..MaxStamp fifths of a second
MaxStamp == 2

\* timestamps of the files of distinct texts are 0..MaxLaneStamp fifths of a
\* second: room for two captions of positive duration that do not meet
MaxLaneStamp == 3

\* the hours field of a timestamp string is 0..MaxHours
MaxHours == 1

\* a token list given to a furigana synthesizer has 1..MaxTokens tokens
MaxTokens == 1

\* the surface form and the reading of a token have up to MaxTokenLen
\* characters
MaxTokenLen == 2

\* processFurigana is called at most MaxRequests times in all
MaxRequests == 3

\* the capacity of a furigana cache (1000 in useFurigana), scaled to the
\* number of requests
MAX_CACHE_SIZE == 2

\* ------------------------------------------------------------------------
\* State
\* ------------------------------------------------------------------------

VARIABLES
    \* src/stores/captions.ts
    subtitleTracks,     \* sequence of load ids: the tracks published, in order
    activeTrackIndex,   \* 0-based index, as in the code
    activeCaptionIds,   \* sequence of caption ids
    currentTime,
    loads,              \* load id -> the loadCaptions call and its captions
    nLoads,             \* loadCaptions calls started so far
    showSecondarySubtitles,
    \* the remote segmenter (sudachi), src/unnamed/part_006
    isServiceAvailable,
    lastCheckTime,
    now,                \* Date.now()
    sudachiCalls,       \* caller -> its analyzeSudachi call
    healthLog,          \* the times at which a GET /health was issued
    \* src/server/services/kuromoji.ts and tokenizer.ts
    server,             \* process.server
    kuromojiModule,     \* the module variables of kuromoji.ts
    tokenizerModule,    \* the module variables of tokenizer.ts
    promises,           \* the initialisation promises that are reachable
    calls,              \* caller -> its tokenize call
    audit,              \* for the claims: failed tries and resets so far
    \* the fallback segmentation, as a function of its text
    segmentInput,       \* a text
    segmentOutput,      \* the function applied to it and the tokens it gave
    \* the subtitle parsers of src/stores/captions.ts, as functions of a file
    parseInput,         \* the content of a subtitle file
    parseOutput,        \* the function applied to it and what it returned
    \* the timestamp conversions of src/stores/captions.ts
    timeStr,            \* a timestamp string of a subtitle file
    formatted,          \* what formatSrtTime gave for the seconds parsed from it
    \* the furigana composable (composables/useFurigana)
    caches,             \* the cache of every useFurigana() instance made so far
    requests,           \* the calls of processFurigana made so far
    \* the furigana synthesizers (services/tokenizer.ts, services/furigana)
    tokenInput,         \* the tokens an analyzer returned
    furiganaOutput      \* the synthesizer applied to them and what it returned

storeVars == <<subtitleTracks, activeTrackIndex, activeCaptionIds, currentTime,
               loads, nLoads, showSecondarySubtitles>>

sudachiVars == <<isServiceAvailable, lastCheckTime, now, sudachiCalls, healthLog>>

chainVars == <<server, kuromojiModule, tokenizerModule, promises, calls, audit>>

segmentVars == <<segmentInput, segmentOutput>>

parseVars == <<parseInput, parseOutput>>

convertVars == <<timeStr, formatted>>

cacheVars == <<caches, requests>>

\* the parts beside the store, the analyzers and the fallback segmentation
readingVars == <<tokenInput, furiganaOutput>>

functionVars == <<parseVars, convertVars, cacheVars, readingVars>>

vars == <<storeVars, sudachiVars, chainVars, segmentVars, functionVars>>

otherThanStore == <<sudachiVars, chainVars, segmentVars, functionVars>>
otherThanSudachi == <<storeVars, chainVars, segmentVars, functionVars>>
otherThanFunctions == <<storeVars, sudachiVars, chainVars, segmentVars>>
otherThanParse == <<otherThanFunctions, convertVars, cacheVars, readingVars>>
otherThanConvert == <<otherThanFunctions, parseVars, cacheVars, readingVars>>
otherThanCache == <<otherThanFunctions, parseVars, convertVars, readingVars>>
otherThanReading == <<otherThanFunctions, parseVars, convertVars, cacheVars>>

\* ------------------------------------------------------------------------
\* The captions store
\* ------------------------------------------------------------------------
\* Time unit: parsed timestamps have millisecond resolution and are modelled
\* as even numbers; the 0.0001 s that playCaption adds to a start time is
\* less than a millisecond and is the odd unit in between.

PlayOffset == 1

\* A parsed caption; the text is abstracted to what the enrichment depends on:
\* "text" (some non-blank text) or "blank" ('' or white space only, which a
\* dialogue line with no text gives).
Cap(s, e, text) == [startTime |-> s, endTime |-> e, text |-> text]

\* What parseCaptions returns for the subtitle files of the model; file 0 is
\* a file in which no parser finds an entry: parseSRT returns a list for any
\* content, so parseCaptions returns the empty list for it (see ParseCaptions
\* below) and the `if (!parsed) return` of loadCaptions is never taken.
ParsedFile(f) ==
    CASE f = 1 -> <<Cap(0, 4, "text"), Cap(2, 4, "text")>>
      [] f = 2 -> <<Cap(2, 2, "blank")>>
      [] OTHER -> <<>>

Files == 0..2
\* the language argument: omitted (treated as Japanese) or a non-Japanese one
Languages == {"undefined", "en"}
Titles == {"undefined", "t"}

LoadIds == 1..MaxLoads

\* stale: clearCaptions ran while the call was awaiting its enrichment tasks;
\* report: what handleFileUpload showed the user once the call had returned.
IdleLoad == [status |-> "unused", captions |-> <<>>, language |-> "undefined",
             title |-> "undefined", stale |-> FALSE, report |-> "none"]

\* The caption objects of a load: the parsed fields, the id of generateId
\* (unique), the annotations and the position of the caption's enrichment task.
NewCaption(l, i, c, pc) ==
    [id |-> <<l, i>>, startTime |-> c.startTime, endTime |-> c.endTime,
     text |-> c.text, furigana |-> "absent", tokens |-> "absent", pc |-> pc,
     failed |-> FALSE]

Range(s) == {s[i] : i \in 1..Len(s)}

\* activeTrack: subtitleTracks[activeTrackIndex], undefined when out of range
HasActiveTrack == activeTrackIndex + 1 \in 1..Len(subtitleTracks)

\* captions: activeTrack?.captions || []
captions ==
    IF HasActiveTrack THEN loads[subtitleTracks[activeTrackIndex + 1]].captions
    ELSE <<>>

\* A test that passes every language.
IsAnyLanguage(language) == language \in {"jpn", "ja", "undefined", "en"}

\* `language === 'jpn' || language === 'ja' || !language`
IsJapanese(language) == language \in {"jpn", "ja", "undefined"}

\* trackInfo of loadCaptions
TrackLanguage(language) == IF language = "undefined" THEN "unknown" ELSE language
DefaultTitles == <<"Track 1", "Track 2", "Track 3", "Track 4", "Track 5">>
TrackTitle(title, n) == IF title = "undefined" THEN DefaultTitles[n + 1] ELSE title

\* the filter of updateActiveCaptions, on a caption list and a time
ActiveAt(caps, t) ==
    LET In(c) == c.startTime <= t /\ t <= c.endTime
    IN  SelectSeq(caps, In)

Ids(caps) == [i \in 1..Len(caps) |-> caps[i].id]

\* updateActiveCaptions, for the track list, index and time given
UpdatedActiveIds(tracks, index, t) ==
    IF index + 1 \in 1..Len(tracks)
    THEN Ids(ActiveAt(loads[tracks[index + 1]].captions, t))
    ELSE <<>>

\* activeCaptions: the captions of the active track whose id is active
activeCaptions ==
    LET Active(c) == c.id \in Range(activeCaptionIds)
    IN  SelectSeq(captions, Active)

\* A list that shows the other tracks whatever the toggle says.
allActiveCaptionsUntoggled ==
    LET RECURSIVE Collect(_)
        Collect(n) ==
            IF n = 0 THEN <<>>
            ELSE LET track == loads[subtitleTracks[n]].captions
                     Active(c) == c.id \in Range(activeCaptionIds)
                 IN  Collect(n - 1) \o
                         (IF n - 1 = activeTrackIndex THEN SelectSeq(track, Active)
                          ELSE ActiveAt(track, currentTime))
    IN  Collect(Len(subtitleTracks))

\* allActiveCaptions: the tracks in order (forEach), the active one filtered
\* by activeCaptionIds, the others by the current time when the toggle is on
allActiveCaptions ==
    LET RECURSIVE Collect(_)
        Collect(n) ==
            IF n = 0 THEN <<>>
            ELSE LET track == loads[subtitleTracks[n]].captions
                     Active(c) == c.id \in Range(activeCaptionIds)
                 IN  Collect(n - 1) \o
                         (IF n - 1 = activeTrackIndex THEN SelectSeq(track, Active)
                          ELSE IF showSecondarySubtitles
                          THEN ActiveAt(track, currentTime)
                          ELSE <<>>)
    IN  Collect(Len(subtitleTracks))

\* findIndex, 1-based; 0 when absent
FindIndex(caps, id) ==
    IF \E i \in 1..Len(caps) : caps[i].id = id
    THEN CHOOSE i \in 1..Len(caps) :
             caps[i].id = id /\ \A j \in 1..(i - 1) : caps[j].id # id
    ELSE 0

StoreInit ==
    /\ subtitleTracks = <<>>
    /\ activeTrackIndex = 0
    /\ activeCaptionIds = <<>>
    /\ currentTime = 0
    /\ loads = [l \in LoadIds |-> IdleLoad]
    /\ nLoads = 0
    /\ showSecondarySubtitles = TRUE

\* handleFileUpload after `await store.loadCaptions(...)`: the message it
\* shows for the value the call resolved with.
\* (the value is <<index>>, or <<>> for undefined)
Report(trackIndex) ==
    IF trackIndex # <<>> THEN "success" ELSE "failed_to_parse"

\* loadCaptions up to its first suspension: parse, duplicate check, and the
\* synchronous start of one enrichment task per caption. A call that returns
\* at the duplicate check resolves with undefined.
LoadStart(f, language, title) ==
    /\ nLoads < MaxLoads
    /\ LET l == nLoads + 1
           parsed == ParsedFile(f)
           lang == TrackLanguage(language)
           ttl == TrackTitle(title, Len(subtitleTracks))
           isDuplicate ==
               \E k \in Range(subtitleTracks) :
                   /\ loads[k].language = lang
                   /\ loads[k].title = ttl
                   /\ Len(loads[k].captions) = Len(parsed)
           pc0 == IF IsJapanese(language) THEN "furigana" ELSE "done"
       IN  /\ nLoads' = l
           /\ loads' = [loads EXCEPT ![l] =
                 IF isDuplicate
                 THEN [IdleLoad EXCEPT !.status = "duplicate",
                                       !.report = Report(<<>>)]
                 ELSE [status |-> "enriching",
                       captions |-> [i \in 1..Len(parsed) |->
                                        NewCaption(l, i, parsed[i], pc0)],
                       language |-> lang, title |-> ttl,
                       stale |-> FALSE, report |-> "none"]]
    /\ UNCHANGED <<subtitleTracks, activeTrackIndex, activeCaptionIds, currentTime>>
    /\ UNCHANGED <<showSecondarySubtitles, otherThanStore>>

\* What processFurigana can resolve with: the backend's result, or the
\* [[text, '']] fallback (for blank text at once, otherwise after a failure).
\* It never rejects.
ProcessFuriganaResults(text) ==
    IF text = "blank" THEN {"fallback"} ELSE {"result", "fallback"}

\* What tokenize resolves with for a caption text: [] for blank text, and at
\* least one token (the analyzer's or the fallback segmentation's) otherwise.
TokenizeResult(text) == IF text = "blank" THEN "empty" ELSE "tokens"

\* A task that stores nothing when the request failed.
StoredFuriganaDropsFallback(result) ==
    IF result = "fallback" THEN "absent" ELSE result

\* What the task stores in caption.furigana for the value processFurigana
\* resolved with: both values are non-empty lists, so both are stored.
StoredFurigana(result) == result

\* A task's processFurigana call settles; the result is non-empty in both
\* cases, so caption.furigana is set, and the task goes on to call tokenize.
\* failed: the request failed (the fallback for a text that is not blank).
TaskFurigana(l, i, result) ==
    /\ loads[l].status \in {"enriching", "published"}
    /\ i \in 1..Len(loads[l].captions)
    /\ loads[l].captions[i].pc = "furigana"
    /\ result \in ProcessFuriganaResults(loads[l].captions[i].text)
    /\ loads' = [loads EXCEPT ![l].captions[i].furigana = StoredFurigana(result),
                              ![l].captions[i].failed =
                                  (result = "fallback"
                                   /\ loads[l].captions[i].text # "blank"),
                              ![l].captions[i].pc = "tokens"]
    /\ UNCHANGED <<subtitleTracks, activeTrackIndex, activeCaptionIds, currentTime,
                   nLoads>>
    /\ UNCHANGED <<showSecondarySubtitles, otherThanStore>>

\* A task's tokenize call settles: a non-empty token list is stored, an empty
\* one is not; the task is settled.
TaskTokens(l, i) ==
    /\ loads[l].status \in {"enriching", "published"}
    /\ i \in 1..Len(loads[l].captions)
    /\ loads[l].captions[i].pc = "tokens"
    /\ LET result == TokenizeResult(loads[l].captions[i].text)
       IN  loads' = [loads EXCEPT ![l].captions[i].tokens =
                                   IF result = "empty" THEN "absent" ELSE result,
                                  ![l].captions[i].pc = "done"]
    /\ UNCHANGED <<subtitleTracks, activeTrackIndex, activeCaptionIds, currentTime,
                   nLoads>>
    /\ UNCHANGED <<showSecondarySubtitles, otherThanStore>>

\* A join that resolves as soon as one task has settled (Promise.race).
AnySettled(l) == \E i \in 1..Len(loads[l].captions) : loads[l].captions[i].pc = "done"

\* Promise.all(processingPromises) of load l has resolved
AllSettled(l) == \A i \in 1..Len(loads[l].captions) : loads[l].captions[i].pc = "done"

\* loadCaptions after `await Promise.all`: the track is pushed and becomes the
\* active one when it is the only one.
LoadPublish(l) ==
    /\ loads[l].status = "enriching"
    /\ AllSettled(l)
    /\ subtitleTracks' = Append(subtitleTracks, l)
    /\ activeTrackIndex' = IF Len(subtitleTracks') = 1 THEN 0 ELSE activeTrackIndex
    /\ loads' = [loads EXCEPT ![l].status = "published",
                              ![l].report = Report(<<Len(subtitleTracks)>>)]
    /\ UNCHANGED <<activeCaptionIds, currentTime, nLoads>>
    /\ UNCHANGED <<showSecondarySubtitles, otherThanStore>>

\* clearCaptions; the caption objects of the dropped tracks are unreachable
\* from then on and leave the model's heap.
clearCaptions ==
    /\ subtitleTracks' = <<>>
    /\ activeTrackIndex' = 0
    /\ activeCaptionIds' = <<>>
    /\ loads' = [l \in LoadIds |->
                    IF loads[l].status = "published"
                    THEN [IdleLoad EXCEPT !.status = "cleared"]
                    ELSE IF loads[l].status = "enriching"
                    THEN [loads[l] EXCEPT !.stale = TRUE]
                    ELSE loads[l]]
    /\ UNCHANGED <<currentTime, nLoads>>
    /\ UNCHANGED <<showSecondarySubtitles, otherThanStore>>

\* A setter that takes any index.
setActiveTrackUnchecked(index) ==
    /\ activeTrackIndex' = index
    /\ activeCaptionIds' = UpdatedActiveIds(subtitleTracks, index, currentTime)
    /\ UNCHANGED <<subtitleTracks, currentTime, loads, nLoads>>
    /\ UNCHANGED <<showSecondarySubtitles, otherThanStore>>

setActiveTrack(index) ==
    /\ IF index >= 0 /\ index < Len(subtitleTracks)
       THEN /\ activeTrackIndex' = index
            /\ activeCaptionIds' = UpdatedActiveIds(subtitleTracks, index, currentTime)
       ELSE UNCHANGED <<activeTrackIndex, activeCaptionIds>>
    /\ UNCHANGED <<subtitleTracks, currentTime, loads, nLoads>>
    /\ UNCHANGED <<showSecondarySubtitles, otherThanStore>>

\* A cycle that steps past the last track.
cycleActiveTrackUnwrapped ==
    /\ IF Len(subtitleTracks) <= 1
       THEN UNCHANGED <<activeTrackIndex, activeCaptionIds>>
       ELSE LET index == activeTrackIndex + 1
            IN  /\ activeTrackIndex' = index
                /\ activeCaptionIds' =
                       UpdatedActiveIds(subtitleTracks, index, currentTime)
    /\ UNCHANGED <<subtitleTracks, currentTime, loads, nLoads>>
    /\ UNCHANGED <<showSecondarySubtitles, otherThanStore>>

cycleActiveTrack ==
    /\ IF Len(subtitleTracks) <= 1
       THEN UNCHANGED <<activeTrackIndex, activeCaptionIds>>
       ELSE LET index == (activeTrackIndex + 1) % Len(subtitleTracks)
            IN  /\ activeTrackIndex' = index
                /\ activeCaptionIds' =
                       UpdatedActiveIds(subtitleTracks, index, currentTime)
    /\ UNCHANGED <<subtitleTracks, currentTime, loads, nLoads>>
    /\ UNCHANGED <<showSecondarySubtitles, otherThanStore>>

setCurrentTime(time) ==
    /\ currentTime' = time
    /\ activeCaptionIds' = UpdatedActiveIds(subtitleTracks, activeTrackIndex, time)
    /\ UNCHANGED <<subtitleTracks, activeTrackIndex, loads, nLoads>>
    /\ UNCHANGED <<showSecondarySubtitles, otherThanStore>>

\* playCaption: setCurrentTime(caption.startTime + 0.0001), then the active
\* ids are overwritten with the one id.
playCaption(caption) ==
    /\ currentTime' = caption.startTime + PlayOffset
    /\ activeCaptionIds' = <<caption.id>>
    /\ UNCHANGED <<subtitleTracks, activeTrackIndex, loads, nLoads>>
    /\ UNCHANGED <<showSecondarySubtitles, otherThanStore>>

previousCaption ==
    IF Len(activeCaptions) = 0
    THEN UNCHANGED vars
    ELSE LET index == FindIndex(captions, activeCaptions[1].id)
         IN  IF index > 1 THEN playCaption(captions[index - 1])
             ELSE UNCHANGED vars

nextCaption ==
    IF Len(activeCaptions) = 0
    THEN UNCHANGED vars
    ELSE LET index == FindIndex(captions, activeCaptions[Len(activeCaptions)].id)
         IN  IF index < Len(captions) THEN playCaption(captions[index + 1])
             ELSE UNCHANGED vars

seekToSubtitleStart ==
    IF Len(activeCaptions) = 0
    THEN UNCHANGED vars
    ELSE setCurrentTime(activeCaptions[1].startTime)

toggleSecondarySubtitles ==
    /\ showSecondarySubtitles' = ~showSecondarySubtitles
    /\ UNCHANGED <<subtitleTracks, activeTrackIndex, activeCaptionIds, currentTime,
                   loads, nLoads>>
    /\ UNCHANGED otherThanStore

\* the captions a caller can hand to playCaption: those of the published tracks
PublishedCaptions ==
    UNION {Range(loads[l].captions) : l \in Range(subtitleTracks)}

\* The playback operations of the store.
PlaybackNext ==
    \/ clearCaptions
    \/ \E index \in -1..MaxLoads : setActiveTrack(index)
    \/ cycleActiveTrack
    \/ \E time \in 0..MaxTime : setCurrentTime(time)
    \/ \E caption \in PublishedCaptions : playCaption(caption)
    \/ previousCaption
    \/ nextCaption
    \/ seekToSubtitleStart
    \/ toggleSecondarySubtitles

\* The store with tracks in a language that is not enriched: every operation
\* of the store, the loads suspended only at their `await Promise.all`.
StoreNext ==
    \/ \E f \in Files, title \in Titles : LoadStart(f, "en", title)
    \/ \E l \in LoadIds : LoadPublish(l)
    \/ PlaybackNext

\* The loader and its enrichment tasks, at a fixed playback time.
LoadNext ==
    \/ \E f \in Files, language \in Languages, title \in Titles :
           LoadStart(f, language, title)
    \/ \E l \in LoadIds, i \in 1..2, r \in {"result", "fallback"} :
           TaskFurigana(l, i, r)
    \/ \E l \in LoadIds, i \in 1..2 : TaskTokens(l, i)
    \/ \E l \in LoadIds : LoadPublish(l)
    \/ clearCaptions

\* ------------------------------------------------------------------------
\* The remote segmenter: checkServiceAvailability and analyzeSudachi
\* ------------------------------------------------------------------------

CHECK_INTERVAL == 30000

\* The clock advances in steps of a third of CHECK_INTERVAL.
ClockStep == CHECK_INTERVAL \div 3

Callers == 1..MaxCallers

IdleSudachiCall ==
    [pc |-> "idle", checkedAt |-> 0, result |-> "none",
     \* for the claims: what the call found when it was made, and the
     \* network requests it has issued
     unavailableInWindow |-> FALSE, requests |-> 0]

SudachiInit ==
    /\ isServiceAvailable = FALSE
    /\ lastCheckTime = 0
    /\ now = CHECK_INTERVAL
    /\ sudachiCalls = [c \in Callers |-> IdleSudachiCall]
    /\ healthLog = <<>>

\* A health check that never reuses the stored flag.
NeverWithinCheckInterval == FALSE

\* checkServiceAvailability's `now - lastCheckTime < CHECK_INTERVAL`
WithinCheckInterval == now - lastCheckTime < CHECK_INTERVAL

\* analyzeSudachi up to its first network request: inside the interval the
\* stored flag decides between the fallback and POST /analyze; outside it a
\* GET /health is issued and the time of the check is remembered.
SudachiCallEffect(c) ==
    /\ sudachiCalls[c].pc \in {"idle", "done"}
    /\ LET call == [IdleSudachiCall EXCEPT
                       !.unavailableInWindow =
                           (~isServiceAvailable /\ now - lastCheckTime < CHECK_INTERVAL)]
       IN  IF WithinCheckInterval
           THEN /\ sudachiCalls' = [sudachiCalls EXCEPT ![c] =
                      IF isServiceAvailable
                      THEN [call EXCEPT !.pc = "analyze", !.requests = 1]
                      ELSE [call EXCEPT !.pc = "done", !.result = "fallback"]]
                /\ UNCHANGED healthLog
           ELSE /\ sudachiCalls' = [sudachiCalls EXCEPT ![c] =
                      [call EXCEPT !.pc = "health", !.checkedAt = now,
                                   !.requests = 1]]
                /\ healthLog' = Append(healthLog, now)
    /\ UNCHANGED <<isServiceAvailable, lastCheckTime, now>>

SudachiCall(c) == SudachiCallEffect(c) /\ UNCHANGED otherThanSudachi

\* GET /health settles: the flag and the time of the check are stored, and
\* analyzeSudachi goes on to POST /analyze or to the fallback.
HealthSettles(c, ok) ==
    /\ sudachiCalls[c].pc = "health"
    /\ isServiceAvailable' = ok
    /\ lastCheckTime' = sudachiCalls[c].checkedAt
    /\ sudachiCalls' = [sudachiCalls EXCEPT ![c] =
           IF ok THEN [@ EXCEPT !.pc = "analyze", !.checkedAt = 0,
                                !.requests = @ + 1]
           ELSE [@ EXCEPT !.pc = "done", !.checkedAt = 0,
                          !.result = "fallback"]]
    /\ UNCHANGED <<now, healthLog>>
    /\ UNCHANGED otherThanSudachi

\* POST /analyze settles: with an array (the tokens), with something that is
\* no array, or with an error after the retries; the last two mark the
\* service unavailable and give the fallback.
AnalyzeSettles(c, response) ==
    /\ sudachiCalls[c].pc = "analyze"
    /\ IF response = "array"
       THEN /\ sudachiCalls' = [sudachiCalls EXCEPT ![c].pc = "done",
                                                    ![c].result = "tokens"]
            /\ UNCHANGED isServiceAvailable
       ELSE /\ sudachiCalls' = [sudachiCalls EXCEPT ![c].pc = "done",
                                                    ![c].result = "fallback"]
            /\ isServiceAvailable' = FALSE
    /\ UNCHANGED <<lastCheckTime, now, healthLog>>
    /\ UNCHANGED otherThanSudachi

Tick ==
    /\ now < CHECK_INTERVAL + MaxTicks * ClockStep
    /\ now' = now + ClockStep
    /\ UNCHANGED <<isServiceAvailable, lastCheckTime, sudachiCalls, healthLog>>
    /\ UNCHANGED otherThanSudachi

SudachiNext ==
    \/ \E c \in Callers : SudachiCall(c)
    \/ \E c \in Callers, ok \in BOOLEAN : HealthSettles(c, ok)
    \/ \E c \in Callers, response \in {"array", "invalid", "error"} :
           AnalyzeSettles(c, response)
    \/ Tick

\* ------------------------------------------------------------------------
\* The analyzer chain: kuromoji.ts (initializeTokenizer, analyzeKuromoji)
\* and tokenizer.ts (initializeTokenizer, tokenize)
\* ------------------------------------------------------------------------

MAX_INIT_ATTEMPTS == 3
MAX_CONSECUTIVE_ERRORS == 5

\* `retryCount < 2` in analyzeKuromoji and in tokenize
MAX_TRIES_AFTER_FIRST == 2

PromiseIds == 1..MaxPromises

Methods == {"kuromoji", "sudachi", "other"}

FreePromise == [st |-> "free", layer |-> "none", on |-> "none", target |-> 0]

\* a promise made by kuromoji.ts' initializeTokenizer: a dictionary build is
\* in flight; later its retry timer, then settled
BuildPromise == [st |-> "pending", layer |-> "kuromoji", on |-> "build", target |-> 0]

\* a promise made by tokenizer.ts' initializeTokenizer on the server: its
\* executor is suspended at `await initializeKuromoji()`
AwaitPromise(target) ==
    [st |-> "pending", layer |-> "tokenizer", on |-> "await", target |-> target]

ResolvedPromise(layer) ==
    [st |-> "resolved", layer |-> layer, on |-> "none", target |-> 0]

IdleCall ==
    [pc |-> "idle", retryCount |-> 0, kuromojiRetryCount |-> 0, wait |-> 0,
     result |-> "none",
     \* for the claims: the analyzers this call was dispatched to, and
     \* whether it met a tokenizationMethod that names no analyzer
     tried |-> {}, unknownMethod |-> FALSE]

ChainInit ==
    /\ kuromojiModule = [tokenizer |-> FALSE, isInitializing |-> FALSE,
                         initializationPromise |-> 0,
                         initializationAttempts |-> 0, consecutiveErrors |-> 0]
    /\ tokenizerModule = [isInitialized |-> FALSE, isInitializing |-> FALSE,
                          initializationPromise |-> 0,
                          initializationAttempts |-> 0, consecutiveErrors |-> 0,
                          tokenizationMethod |-> "kuromoji"]
    /\ promises = [p \in PromiseIds |-> FreePromise]
    /\ calls = [c \in Callers |-> IdleCall]
    \* for the claims, per module: the failed tries since the last try
    \* that succeeded or reset the module, and the resets so far
    /\ audit = [kuromoji |-> [failures |-> 0, resets |-> 0],
                tokenizer |-> [failures |-> 0, resets |-> 0]]

\* The chain's variables as one value w, so that a function that calls
\* another is the composition of the two.
World == [k |-> kuromojiModule, t |-> tokenizerModule, p |-> promises,
          c |-> calls, a |-> audit]

\* `new Promise(...)`: the first unused identity
Alloc(p) == CHOOSE i \in PromiseIds :
                /\ p[i].st = "free"
                /\ \A j \in PromiseIds : j < i => p[j].st # "free"

Settled(p, i) == i # 0 /\ p[i].st \in {"resolved", "rejected"}

\* kuromoji.ts initializeTokenizer(): ret is 0 when the tokenizer itself is
\* returned, else the promise returned
KuromojiInitialize(w) ==
    IF w.k.tokenizer THEN [w |-> w, ret |-> 0]
    ELSE IF w.k.isInitializing /\ w.k.initializationPromise # 0
    THEN [w |-> w, ret |-> w.k.initializationPromise]
    ELSE LET q == Alloc(w.p)
         IN  [w |-> [w EXCEPT !.k.isInitializing = TRUE,
                              !.k.initializationAttempts = @ + 1,
                              !.k.initializationPromise = q,
                              !.p[q] = BuildPromise],
              ret |-> q]

\* the success path of tokenizer.ts' executor, resolving promise q
TokenizerInitialized(w, q) ==
    [w EXCEPT !.t.isInitialized = TRUE, !.t.isInitializing = FALSE,
              !.t.consecutiveErrors = 0,
              !.p[q] = ResolvedPromise("tokenizer")]

\* tokenizer.ts initializeTokenizer(): ret is 0 when it returns at once
TokenizerInitialize(w) ==
    IF w.t.isInitialized THEN [w |-> w, ret |-> 0]
    ELSE IF w.t.isInitializing /\ w.t.initializationPromise # 0
    THEN [w |-> w, ret |-> w.t.initializationPromise]
    ELSE LET w1 == [w EXCEPT !.t.isInitializing = TRUE,
                             !.t.initializationAttempts = @ + 1]
         IN  IF server
             THEN LET r == KuromojiInitialize(w1)
                      q == Alloc(r.w.p)
                  IN  IF r.ret = 0
                      THEN [w |-> TokenizerInitialized(
                                      [r.w EXCEPT !.t.initializationPromise = q], q),
                            ret |-> q]
                      ELSE [w |-> [r.w EXCEPT !.t.initializationPromise = q,
                                              !.p[q] = AwaitPromise(r.ret)],
                            ret |-> q]
             ELSE LET q == Alloc(w1.p)
                  IN  [w |-> TokenizerInitialized(
                                 [w1 EXCEPT !.t.initializationPromise = q], q),
                       ret |-> q]

\* `return` of tokenize
Finish(w, c, result) ==
    [w EXCEPT !.c[c].pc = "done", !.c[c].result = result, !.c[c].wait = 0,
              !.a.tokenizer.failures =
                  IF result \in {"kuromoji_tokens", "sudachi_tokens"} THEN 0 ELSE @]

\* a catch whose reset leaves initializationAttempts as it is
AnalyzeKuromojiCatchKeepsAttempts(w, c) ==
    LET e  == w.k.consecutiveErrors + 1
        w1 == [w EXCEPT !.k.consecutiveErrors = e,
                        !.a.kuromoji.failures = @ + 1]
        w2 == IF e >= MAX_CONSECUTIVE_ERRORS
              THEN [w1 EXCEPT !.k.tokenizer = FALSE,
                              !.k.isInitializing = FALSE,
                              !.k.initializationPromise = 0,
                              !.a.kuromoji.failures = 0,
                              !.a.kuromoji.resets = @ + 1]
              ELSE w1
    IN  IF w.c[c].kuromojiRetryCount < MAX_TRIES_AFTER_FIRST
        THEN [w2 EXCEPT !.c[c].pc = "kuromoji_delay",
                        !.c[c].kuromojiRetryCount = @ + 1,
                        !.c[c].wait = 0]
        ELSE Finish(w2, c, "kuromoji_split")

\* analyzeKuromoji's catch: count the error, reset the module at
\* MAX_CONSECUTIVE_ERRORS, then retry after a delay or give the split text
AnalyzeKuromojiCatch(w, c) ==
    LET e  == w.k.consecutiveErrors + 1
        w1 == [w EXCEPT !.k.consecutiveErrors = e,
                        !.a.kuromoji.failures = @ + 1]
        w2 == IF e >= MAX_CONSECUTIVE_ERRORS
              THEN [w1 EXCEPT !.k.tokenizer = FALSE,
                              !.k.isInitializing = FALSE,
                              !.k.initializationPromise = 0,
                              !.k.initializationAttempts = 0,
                              !.a.kuromoji.failures = 0,
                              !.a.kuromoji.resets = @ + 1]
              ELSE w1
    IN  IF w.c[c].kuromojiRetryCount < MAX_TRIES_AFTER_FIRST
        THEN [w2 EXCEPT !.c[c].pc = "kuromoji_delay",
                        !.c[c].kuromojiRetryCount = @ + 1,
                        !.c[c].wait = 0]
        ELSE Finish(w2, c, "kuromoji_split")

\* analyzeKuromoji from `if (!tokenizer) throw` on; analysis is what
\* tokenizer.tokenize(text) does
AnalyzeKuromojiRun(w, c, analysis) ==
    IF ~w.k.tokenizer THEN AnalyzeKuromojiCatch(w, c)
    ELSE CASE analysis = "tokens" ->
                  Finish([w EXCEPT !.k.consecutiveErrors = 0,
                                   !.a.kuromoji.failures = 0], c, "kuromoji_tokens")
           [] analysis = "none" -> Finish(w, c, "kuromoji_split")
           [] OTHER -> AnalyzeKuromojiCatch(w, c)

\* analyzeKuromoji(text, retryCount) for a text that is not blank
AnalyzeKuromojiTry(w, c, analysis) ==
    IF ~w.k.tokenizer
    THEN LET r == KuromojiInitialize(w)
         IN  [r.w EXCEPT !.c[c].pc = "kuromoji_init", !.c[c].wait = r.ret]
    ELSE AnalyzeKuromojiRun(w, c, analysis)

\* a dispatch that hands a text kuromoji has split to sudachi as well
TokenizeDispatchBoth(w, c, analysis) ==
    CASE w.t.tokenizationMethod = "kuromoji" ->
             LET r == AnalyzeKuromojiTry([w EXCEPT !.c[c].kuromojiRetryCount = 0,
                                                   !.c[c].tried = @ \cup {"kuromoji"}],
                                         c, analysis)
             IN  IF r.c[c].result = "kuromoji_split"
                 THEN [r EXCEPT !.c[c].pc = "sudachi", !.c[c].result = "none",
                                !.c[c].tried = @ \cup {"sudachi"}]
                 ELSE r
      [] w.t.tokenizationMethod = "sudachi" ->
             [w EXCEPT !.c[c].pc = "sudachi", !.c[c].wait = 0,
                       !.c[c].tried = @ \cup {"sudachi"}]
      [] OTHER -> Finish([w EXCEPT !.c[c].unknownMethod = TRUE], c, "simple")

\* tokenize's dispatch on tokenizationMethod
TokenizeDispatch(w, c, analysis) ==
    CASE w.t.tokenizationMethod = "kuromoji" ->
             AnalyzeKuromojiTry([w EXCEPT !.c[c].kuromojiRetryCount = 0,
                                          !.c[c].tried = @ \cup {"kuromoji"}],
                                c, analysis)
      [] w.t.tokenizationMethod = "sudachi" ->
             [w EXCEPT !.c[c].pc = "sudachi", !.c[c].wait = 0,
                       !.c[c].tried = @ \cup {"sudachi"}]
      [] OTHER -> Finish([w EXCEPT !.c[c].unknownMethod = TRUE], c, "simple")

\* a tokenize whose catch gives up by throwing
TokenizeCatchRethrows(w, c) ==
    IF w.c[c].retryCount < MAX_TRIES_AFTER_FIRST
    THEN [w EXCEPT !.c[c].pc = "tokenize_delay", !.c[c].retryCount = @ + 1,
                   !.c[c].wait = 0]
    ELSE Finish(w, c, "rejected")

\* A catch that retries however many tries the call has made.
TokenizeCatchRetriesAgain(w, c) ==
    [w EXCEPT !.t.consecutiveErrors = @ + 1,
              !.c[c].pc = "tokenize_delay", !.c[c].retryCount = @ + 1,
              !.c[c].wait = 0]

\* tokenize's catch
TokenizeCatch(w, c) ==
    LET e  == w.t.consecutiveErrors + 1
        w1 == [w EXCEPT !.t.consecutiveErrors = e,
                        !.a.tokenizer.failures = @ + 1]
        w2 == IF e >= MAX_CONSECUTIVE_ERRORS
              THEN [w1 EXCEPT !.t.isInitialized = FALSE,
                              !.t.isInitializing = FALSE,
                              !.t.initializationPromise = 0,
                              !.t.initializationAttempts = 0,
                              !.a.tokenizer.failures = 0,
                              !.a.tokenizer.resets = @ + 1]
              ELSE w1
    IN  IF w.c[c].retryCount < MAX_TRIES_AFTER_FIRST
        THEN [w2 EXCEPT !.c[c].pc = "tokenize_delay",
                        !.c[c].retryCount = @ + 1,
                        !.c[c].wait = 0]
        ELSE Finish(w2, c, "simple")

\* tokenize(text, retryCount) for a text that is not blank
TokenizeTry(w, c, analysis) ==
    IF ~w.t.isInitialized
    THEN LET r == TokenizerInitialize(w)
         IN  [r.w EXCEPT !.c[c].pc = "tokenize_init", !.c[c].wait = r.ret]
    ELSE TokenizeDispatch(w, c, analysis)

\* Promise p takes the outcome of promise q (`.then(resolve).catch(reject)`):
\* whoever waits for p waits for q.
Adopt(w, p, q) ==
    [w EXCEPT !.c = [c \in Callers |->
                        IF w.c[c].wait = p THEN [w.c[c] EXCEPT !.wait = q]
                        ELSE w.c[c]],
              !.p = [i \in PromiseIds |->
                        IF i = p THEN FreePromise
                        ELSE IF w.p[i].target = p THEN [w.p[i] EXCEPT !.target = q]
                        ELSE w.p[i]]]

\* the promises something still refers to
Referenced(w) ==
    {w.k.initializationPromise, w.t.initializationPromise}
        \cup {w.c[c].wait : c \in Callers}
        \cup {w.p[i].target : i \in PromiseIds}

\* settled promises nothing refers to are forgotten
Collected(w) ==
    [i \in PromiseIds |->
        IF w.p[i].st \in {"resolved", "rejected"} /\ i \notin Referenced(w)
        THEN FreePromise ELSE w.p[i]]

\* every function above makes at most two promises
CanAllocate == Cardinality({i \in PromiseIds : promises[i].st = "free"}) >= 2

Commit(w) ==
    /\ kuromojiModule' = w.k
    /\ tokenizerModule' = w.t
    /\ promises' = Collected(w)
    /\ calls' = w.c
    /\ audit' = w.a
    /\ UNCHANGED server

\* one step of a tokenize call: the call to analyzeSudachi, if the step
\* makes it, runs up to its first request
CallStep(w, c) ==
    /\ Commit(w)
    /\ IF w.c[c].pc = "sudachi"
       THEN SudachiCallEffect(c)
       ELSE UNCHANGED sudachiVars
    /\ UNCHANGED <<storeVars, segmentVars, functionVars>>

ModuleStep(w) ==
    /\ Commit(w)
    /\ UNCHANGED <<storeVars, sudachiVars, segmentVars, functionVars>>

\* A continuation of an await whose promise has settled is ready to run.
\* Such continuations run before the event loop takes the next callback of
\* a build, a timer or a request.
ContinuationReady ==
    \/ \E c \in Callers :
           \/ /\ calls[c].pc \in {"tokenize_init", "kuromoji_init"}
              /\ Settled(promises, calls[c].wait)
           \/ /\ calls[c].pc = "sudachi"
              /\ sudachiCalls[c].pc = "done"
    \/ \E q \in PromiseIds :
           /\ promises[q].on = "await"
           /\ Settled(promises, promises[q].target)

\* tokenize(text): blank text gives []; else the first try runs up to its
\* first await
tokenize(c, text, analysis) ==
    /\ calls[c].pc = "idle"
    /\ CanAllocate
    /\ IF text = "blank"
       THEN CallStep(Finish(World, c, "empty"), c)
       ELSE CallStep(TokenizeTry(World, c, analysis), c)

\* `await initializeTokenizer()` in tokenize returns or throws
TokenizeInitSettles(c, analysis) ==
    /\ calls[c].pc = "tokenize_init"
    /\ Settled(promises, calls[c].wait)
    /\ CanAllocate
    /\ IF promises[calls[c].wait].st = "resolved"
       THEN CallStep(TokenizeDispatch(World, c, analysis), c)
       ELSE CallStep(TokenizeCatch(World, c), c)

\* the second of delay before tokenize(text, retryCount + 1) has passed
TokenizeDelayElapses(c, analysis) ==
    /\ calls[c].pc = "tokenize_delay"
    /\ ~ContinuationReady
    /\ CanAllocate
    /\ CallStep(TokenizeTry(World, c, analysis), c)

\* `await initializeTokenizer()` in analyzeKuromoji returns or throws
KuromojiInitSettles(c, analysis) ==
    /\ calls[c].pc = "kuromoji_init"
    /\ Settled(promises, calls[c].wait)
    /\ IF promises[calls[c].wait].st = "resolved"
       THEN CallStep(AnalyzeKuromojiRun(World, c, analysis), c)
       ELSE CallStep(AnalyzeKuromojiCatch(World, c), c)

\* the second of delay before analyzeKuromoji(text, retryCount + 1) has passed
KuromojiDelayElapses(c, analysis) ==
    /\ calls[c].pc = "kuromoji_delay"
    /\ ~ContinuationReady
    /\ CanAllocate
    /\ CallStep(AnalyzeKuromojiTry(World, c, analysis), c)

\* `return await analyzeSudachi(text)`: analyzeSudachi has returned
SudachiReturns(c) ==
    /\ calls[c].pc = "sudachi"
    /\ sudachiCalls[c].pc = "done"
    /\ ModuleStep(Finish(World, c,
                         IF sudachiCalls[c].result = "tokens"
                         THEN "sudachi_tokens" ELSE "sudachi_split"))

\* the callback of kuromoji's build
BuildSettles(p, ok) ==
    /\ promises[p] = BuildPromise
    /\ ~ContinuationReady
    /\ IF ok
       THEN ModuleStep([World EXCEPT !.k.tokenizer = TRUE,
                                     !.k.isInitializing = FALSE,
                                     !.k.consecutiveErrors = 0,
                                     !.p[p] = ResolvedPromise("kuromoji")])
       ELSE ModuleStep([World EXCEPT
                !.k.consecutiveErrors = @ + 1,
                !.k.isInitializing = FALSE,
                !.p[p] = IF kuromojiModule.initializationAttempts < MAX_INIT_ATTEMPTS
                         THEN [@ EXCEPT !.on = "timer"]
                         ELSE [@ EXCEPT !.st = "rejected", !.on = "none"]])

\* kuromoji.ts' setTimeout callback after a failed build
KuromojiRetryTimer(p) ==
    /\ promises[p].layer = "kuromoji"
    /\ promises[p].on = "timer"
    /\ ~ContinuationReady
    /\ CanAllocate
    /\ LET r == KuromojiInitialize([World EXCEPT !.k.initializationPromise = 0])
       IN  IF r.ret = 0
           THEN ModuleStep([r.w EXCEPT !.p[p] = ResolvedPromise("kuromoji")])
           ELSE ModuleStep(Adopt(r.w, p, r.ret))

\* tokenizer.ts' executor goes on after `await initializeKuromoji()`
ExecutorResumes(q) ==
    /\ promises[q].on = "await"
    /\ Settled(promises, promises[q].target)
    /\ IF promises[promises[q].target].st = "resolved"
       THEN ModuleStep(TokenizerInitialized(World, q))
       ELSE ModuleStep([World EXCEPT
                !.t.isInitializing = FALSE,
                !.t.consecutiveErrors = @ + 1,
                !.p[q] = IF tokenizerModule.initializationAttempts < MAX_INIT_ATTEMPTS
                         THEN [@ EXCEPT !.on = "timer", !.target = 0]
                         ELSE [@ EXCEPT !.st = "rejected", !.on = "none",
                                        !.target = 0]])

\* tokenizer.ts' setTimeout callback after a failed initialisation
TokenizerRetryTimer(q) ==
    /\ promises[q].layer = "tokenizer"
    /\ promises[q].on = "timer"
    /\ ~ContinuationReady
    /\ CanAllocate
    /\ LET r == TokenizerInitialize([World EXCEPT !.t.initializationPromise = 0])
       IN  IF r.ret = 0
           THEN ModuleStep([r.w EXCEPT !.p[q] = ResolvedPromise("tokenizer")])
           ELSE ModuleStep(Adopt(r.w, q, r.ret))

setTokenizationMethod(method) ==
    /\ tokenizerModule' = [tokenizerModule EXCEPT !.tokenizationMethod = method]
    /\ UNCHANGED <<server, kuromojiModule, promises, calls, audit>>
    /\ UNCHANGED <<storeVars, sudachiVars, segmentVars, functionVars>>

Analyses == {"tokens", "none", "throws"}

ChainNext ==
    \/ \E c \in Callers, text \in {"blank", "text"}, analysis \in Analyses :
           tokenize(c, text, analysis)
    \/ \E c \in Callers, analysis \in Analyses : TokenizeInitSettles(c, analysis)
    \/ \E c \in Callers, analysis \in Analyses : TokenizeDelayElapses(c, analysis)
    \/ \E c \in Callers, analysis \in Analyses : KuromojiInitSettles(c, analysis)
    \/ \E c \in Callers, analysis \in Analyses : KuromojiDelayElapses(c, analysis)
    \/ \E c \in Callers : SudachiReturns(c)
    \/ \E p \in PromiseIds, ok \in BOOLEAN : BuildSettles(p, ok)
    \/ \E p \in PromiseIds : KuromojiRetryTimer(p)
    \/ \E q \in PromiseIds : ExecutorResumes(q)
    \/ \E q \in PromiseIds : TokenizerRetryTimer(q)
    \/ \E method \in Methods : setTokenizationMethod(method)
    \/ \E c \in Callers, ok \in BOOLEAN :
           calls[c].pc = "sudachi" /\ ~ContinuationReady /\ HealthSettles(c, ok)
    \/ \E c \in Callers, response \in {"array", "invalid", "error"} :
           calls[c].pc = "sudachi" /\ ~ContinuationReady /\ AnalyzeSettles(c, response)

\* ------------------------------------------------------------------------
\* The fallback segmentation: simpleTokenize, and the splits at the end of
\* analyzeKuromoji, as functions of the text
\* ------------------------------------------------------------------------

\* One character of each kind the code tells apart: a Latin letter, the
\* ASCII space, U+3000 (the ideographic space) and a kana.
Chars == {"a", "space", "ideographic_space", "kana"}

\* what String.prototype.trim removes and \s matches
IsWhitespace(ch) == ch \in {"space", "ideographic_space"}

\* JAPANESE_REGEX: its first range, 　-〿, starts at U+3000
MatchesJapanese(ch) == ch \in {"ideographic_space", "kana"}

RECURSIVE TextsOfLength(_)
TextsOfLength(n) ==
    IF n = 0 THEN {<<>>}
    ELSE {Append(t, ch) : t \in TextsOfLength(n - 1), ch \in Chars}

Texts == UNION {TextsOfLength(n) : n \in 0..MaxTextLen}

\* `!text || text.trim() === ''`
IsBlank(text) == \A i \in 1..Len(text) : IsWhitespace(text[i])

JAPANESE_REGEX_test(text) == \E i \in 1..Len(text) : MatchesJapanese(text[i])

\* the length of the longest prefix of text whose characters are all
\* whitespace (ws = TRUE) or all not
RECURSIVE RunLength(_, _)
RunLength(text, ws) ==
    IF text = <<>> \/ IsWhitespace(Head(text)) # ws THEN 0
    ELSE 1 + RunLength(Tail(text), ws)

\* text.split(/(\s+)/): the pieces between the runs of whitespace, which
\* may be empty at either end, with the runs themselves in between
RECURSIVE Split(_)
Split(text) ==
    LET n == RunLength(text, FALSE)
        rest == SubSeq(text, n + 1, Len(text))
        m == RunLength(rest, TRUE)
    IN  IF n = Len(text) THEN <<text>>
        ELSE <<SubSeq(text, 1, n), SubSeq(rest, 1, m)>>
                 \o Split(SubSeq(rest, m + 1, Len(rest)))

NotEmpty(piece) == piece # <<>>

NotWhitespace(ch) == ~IsWhitespace(ch)

\* Array.from(text).filter(char => char.trim() !== '')
CharTokens(text) == [i \in 1..Len(SelectSeq(text, NotWhitespace)) |->
                        <<SelectSeq(text, NotWhitespace)[i]>>]

JapaneseOnly(ch) == MatchesJapanese(ch) /\ ~IsWhitespace(ch)

\* a segmentation that keeps only the Japanese characters of a text that
\* has one
simpleTokenizeJapaneseOnly(text) ==
    IF JAPANESE_REGEX_test(text)
    THEN [i \in 1..Len(SelectSeq(text, JapaneseOnly)) |->
             <<SelectSeq(text, JapaneseOnly)[i]>>]
    ELSE SelectSeq(Split(text), NotEmpty)

\* simpleTokenize(text); each token is the text of its surface_form
simpleTokenize(text) ==
    IF JAPANESE_REGEX_test(text)
    THEN CharTokens(text)
    ELSE SelectSeq(Split(text), NotEmpty)

\* what tokenize gives for a text when initialisation fails on every try
TokenizeFallback(text) ==
    IF IsBlank(text) THEN <<>> ELSE simpleTokenize(text)

\* what analyzeKuromoji gives for a text when the analyzer throws on every
\* try: its own guard, then the same two splits as simpleTokenize
AnalyzeKuromojiFallback(text) ==
    IF IsBlank(text) THEN <<>>
    ELSE IF JAPANESE_REGEX_test(text) THEN CharTokens(text)
    ELSE SelectSeq(Split(text), NotEmpty)

\* what tokenize gives for a text when the remote backend is selected and
\* analyzeSudachi finds the service unavailable, or its request fails: the
\* guard of tokenize, then the whitespace split of analyzeSudachi
AnalyzeSudachiFallback(text) ==
    IF IsBlank(text) THEN <<>> ELSE SelectSeq(Split(text), NotEmpty)

NotSegmented == [by |-> "none", tokens |-> <<>>]

SegmentInit ==
    /\ segmentInput = <<>>
    /\ segmentOutput = NotSegmented

SegmentBy(by, tokens) ==
    /\ segmentOutput = NotSegmented
    /\ segmentOutput' = [by |-> by, tokens |-> tokens]
    /\ UNCHANGED segmentInput
    /\ UNCHANGED <<storeVars, sudachiVars, chainVars, functionVars>>

ApplySimpleTokenize == SegmentBy("simpleTokenize", simpleTokenize(segmentInput))

ApplyTokenizeFallback == SegmentBy("tokenize", TokenizeFallback(segmentInput))

ApplyAnalyzeKuromojiFallback ==
    SegmentBy("analyzeKuromoji", AnalyzeKuromojiFallback(segmentInput))

ApplyAnalyzeSudachiFallback ==
    SegmentBy("analyzeSudachi", AnalyzeSudachiFallback(segmentInput))

SegmentNext ==
    \/ ApplySimpleTokenize
    \/ ApplyTokenizeFallback
    \/ ApplyAnalyzeKuromojiFallback
    \/ ApplyAnalyzeSudachiFallback

\* ------------------------------------------------------------------------
\* The subtitle parsers: parseCaptions and the passes it runs
\* ------------------------------------------------------------------------
\* Time unit: a fifth of a second (0.2 s). A file is its WEBVTT header, present or
\* not, and the blocks that follow; a block is what one parser at most takes
\* for an entry:
\*   "vtt"       a timing line with '.' milliseconds, then text
\*   "srt"       a counter line, a timing line with ',' milliseconds, then text
\*   "ass"       a `Dialogue:` line of ten fields or more
\*   "ass_short" a `Dialogue:` line of fewer than ten fields
\*   "ass_untimed" a `Dialogue:` line of ten fields or more whose start or
\*               end field is no timestamp (an empty field, a word)
\*   "junk"      lines none of the three parsers takes for an entry
\*   "unnumbered" a timing line with ',' milliseconds, then one line of text:
\*               two lines, which parseSRT drops (lines.length < 3) and whose
\*               timing line the pattern of parseVTT, with its '.', rejects
\* The timestamps of an entry are whatever the file says: no order between
\* the start and the end of an entry is imposed by the patterns.

CaptionTexts == {"x", "y"}

\* what timeToSeconds returns for a field that is no timestamp: a missing or
\* non-numeric part becomes NaN under Number, and the sum is NaN. It is kept
\* apart from every time of the model, which are 0 or more.
NaN == 0 - 1

Block(kind, s, e, text) ==
    [kind |-> kind, startTime |-> s, endTime |-> e, text |-> text]

TimedBlocks(kinds) ==
    {Block(k, s, e, t) : k \in kinds, s \in 0..MaxStamp, e \in 0..MaxStamp,
                         t \in CaptionTexts}

\* files of m blocks of mixed content
Contents(m) ==
    [header : BOOLEAN,
     blocks : [1..m -> TimedBlocks({"vtt", "srt", "ass"})
                          \cup {Block(k, 0, 0, "x") : k \in {"ass_short", "junk"}}]]

\* files of m blocks of mixed content, `Dialogue:` lines without a timestamp
\* in the start field, the end field or both included
EntryFiles(m) ==
    [header : BOOLEAN,
     blocks : [1..m -> TimedBlocks({"vtt", "srt", "ass"})
                          \cup {Block(k, 0, 0, "x") :
                                   k \in {"ass_short", "junk", "unnumbered"}}
                          \cup {Block("ass_untimed", s, e, "x") :
                                   s \in {NaN, 0}, e \in {NaN}}
                          \cup {Block("ass_untimed", NaN, 0, "x")}]]

\* files of m SubRip entries and nothing else; texts matter only by being
\* equal or not, so the text of the first entry is fixed
SrtFiles(m) ==
    {[header |-> FALSE, blocks |-> blocks] :
        blocks \in {b \in [1..m -> TimedBlocks({"srt"})] :
                       m = 0 \/ b[1].text = "x"}}

\* files of m SubRip entries, each with a text of its own
SubtitleLines == <<"x", "y", "z", "w", "v">>
DistinctFiles(m) ==
    {[header |-> FALSE,
      blocks |-> [i \in 1..m |-> Block("srt", span[i][1], span[i][2], SubtitleLines[i])]] :
        span \in [1..m -> (0..MaxLaneStamp) \X (0..MaxLaneStamp)]}

\* what a parser returns: null, or a list of captions
Null == [null |-> TRUE, captions |-> <<>>]
Found(caps) == [null |-> FALSE, captions |-> caps]

\* the entries a parser keeps (entries.filter(entry => entry !== null)), each
\* as the caption object built for it
Entries(blocks, kinds) ==
    LET Is(b) == b.kind \in kinds
        kept == SelectSeq(blocks, Is)
    IN  [i \in 1..Len(kept) |->
            [startTime |-> kept[i].startTime, endTime |-> kept[i].endTime,
             text |-> kept[i].text]]

\* A parser that takes a timing line and a text line for an entry too.
parseSRTUnnumbered(content) ==
    Found(Entries(content.blocks, {"srt", "unnumbered"}))

parseSRT(content) == Found(Entries(content.blocks, {"srt"}))

\* every `Dialogue:` line of ten fields or more becomes a caption, with the
\* times timeToSeconds returns for its second and third field
DialogueKinds == {"ass", "ass_short", "ass_untimed"}
parseASS(content) ==
    IF \A i \in 1..Len(content.blocks) : content.blocks[i].kind \notin DialogueKinds
    THEN Null
    ELSE Found(Entries(content.blocks, {"ass", "ass_untimed"}))

parseVTT(content) ==
    IF ~content.header THEN Null ELSE Found(Entries(content.blocks, {"vtt"}))

\* the comparator of sortCaptionsByTime says a goes before b
Before(a, b) ==
    IF a.startTime = b.startTime THEN ~(a.endTime > b.endTime)
    ELSE ~(a.startTime > b.startTime)

\* A sort on the start time alone.
sortCaptionsByStart(caps) ==
    LET n == Len(caps)
        perms == {f \in [1..n -> 1..n] : \A i, j \in 1..n : f[i] = f[j] => i = j}
        InOrder(c) == \A i \in 1..(n - 1) : c[i].startTime <= c[i + 1].startTime
    IN  {c \in {[i \in 1..n |-> caps[f[i]]] : f \in perms} : InOrder(c)}

\* sortCaptionsByTime: the comparator answers -1 both ways for two captions
\* of equal start and end, so the order Array.prototype.sort leaves such
\* captions in is the engine's choice; every order is a possible outcome.
sortCaptionsByTime(caps) ==
    LET n == Len(caps)
        perms == {f \in [1..n -> 1..n] : \A i, j \in 1..n : f[i] = f[j] => i = j}
        InOrder(c) == \A i \in 1..(n - 1) : Before(c[i], c[i + 1])
    IN  {c \in {[i \in 1..n |-> caps[f[i]]] : f \in perms} : InOrder(c)}

\* the 0.2 of isOverlapping, in fifths of a second
OVERLAP_SECONDS == 1

\* (c / d) > 0.3 in IEEE arithmetic: the quotient is -Infinity, NaN or
\* +Infinity when d is 0
QuotientExceeds(c, d) ==
    IF d > 0 THEN 10 * c > 3 * d
    ELSE IF d < 0 THEN 10 * c < 3 * d
    ELSE c > 0

isOverlapping(left, right) ==
    LET containedDuration == right.endTime - left.startTime
        rightDuration == right.endTime - right.startTime
    IN  containedDuration > OVERLAP_SECONDS
            \/ QuotientExceeds(containedDuration, rightDuration)

Min(a, b) == IF a < b THEN a ELSE b
Max(a, b) == IF a > b THEN a ELSE b

\* A loop that moves the start of the next caption and leaves its end.
RECURSIVE MergeLoopKeepsEnd(_, _, _)
MergeLoopKeepsEnd(caps, i, duplicateIndexes) ==
    IF i > Len(caps) - 1 THEN <<caps, duplicateIndexes>>
    ELSE IF caps[i].text = caps[i + 1].text /\ isOverlapping(caps[i], caps[i + 1])
    THEN MergeLoopKeepsEnd([caps EXCEPT
                       ![i + 1].startTime = Min(caps[i].startTime, caps[i + 1].startTime)],
                   i + 1, duplicateIndexes \cup {i})
    ELSE MergeLoopKeepsEnd(caps, i + 1, duplicateIndexes)

\* the loop of mergeDuplicates from index i on: the next caption is widened
\* in place, the index of the current one is remembered
RECURSIVE MergeLoop(_, _, _)
MergeLoop(caps, i, duplicateIndexes) ==
    IF i > Len(caps) - 1 THEN <<caps, duplicateIndexes>>
    ELSE IF caps[i].text = caps[i + 1].text /\ isOverlapping(caps[i], caps[i + 1])
    THEN MergeLoop([caps EXCEPT
                       ![i + 1].startTime = Min(caps[i].startTime, caps[i + 1].startTime),
                       ![i + 1].endTime = Max(caps[i].endTime, caps[i + 1].endTime)],
                   i + 1, duplicateIndexes \cup {i})
    ELSE MergeLoop(caps, i + 1, duplicateIndexes)

\* mergeDuplicates: the loop, then the splices of the remembered indexes
mergeDuplicates(caps) ==
    LET done == MergeLoop(caps, 1, {})
        kept == (1..Len(caps)) \ done[2]
        Nth(k) == CHOOSE i \in kept : Cardinality({j \in kept : j < i}) = k - 1
    IN  [k \in 1..Cardinality(kept) |-> done[1][Nth(k)]]

maxLookBehind == 5

\* findPreviousCaptions, walking back from index i over the lanes assigned so
\* far: the indexes of the captions it returns (their order does not matter
\* to the caller)
RECURSIVE LookBehind(_, _, _, _, _)
LookBehind(lanes, i, previousLanes, misses, previousCaptions) ==
    IF i < 1 THEN previousCaptions
    ELSE IF lanes[i] \in previousLanes
    THEN IF misses + 1 > maxLookBehind THEN previousCaptions
         ELSE LookBehind(lanes, i - 1, previousLanes, misses + 1, previousCaptions)
    ELSE LookBehind(lanes, i - 1, previousLanes \cup {lanes[i]}, misses,
                    previousCaptions \cup {i})

\* A look-behind of one caption.
findPreviousCaption(lanes, currentIndex) ==
    IF currentIndex > 1 THEN {currentIndex - 1} ELSE {}

findPreviousCaptions(lanes, currentIndex) ==
    LookBehind(lanes, currentIndex - 1, {}, 0, {})

\* the lane assignCaptionsToLanes gives to caption i, the lanes of the
\* captions before it being assigned
LaneOf(caps, lanes, i) ==
    LET takenLanes ==
            {lanes[j] : j \in {k \in findPreviousCaptions(lanes, i) :
                                   isOverlapping(caps[k], caps[i])}}
    IN  CHOOSE lane \in 0..Cardinality(takenLanes) :
            /\ lane \notin takenLanes
            /\ \A smaller \in 0..(lane - 1) : smaller \in takenLanes

RECURSIVE AssignLoop(_, _)
AssignLoop(caps, lanes) ==
    IF Len(lanes) = Len(caps) THEN lanes
    ELSE AssignLoop(caps, Append(lanes, LaneOf(caps, lanes, Len(lanes) + 1)))

assignCaptionsToLanes(caps) ==
    LET lanes == AssignLoop(caps, <<>>)
    IN  [i \in 1..Len(caps) |->
            [startTime |-> caps[i].startTime, endTime |-> caps[i].endTime,
             text |-> caps[i].text, lane |-> lanes[i]]]

\* parseCaptions: the first parser that does not return null, then the three
\* passes. An empty list is not null, so a parser that recognised the format
\* and kept no entry ends the search, and parseSRT ends it in any case.
\* The results it can return, each with the list as it was after the sort.
parseCaptions(fileContent) ==
    LET vtt == parseVTT(fileContent)
        ass == parseASS(fileContent)
        parsed == IF ~vtt.null THEN vtt
                  ELSE IF ~ass.null THEN ass
                  ELSE parseSRT(fileContent)
    IN  IF parsed.null THEN {[null |-> TRUE, sorted |-> <<>>, captions |-> <<>>]}
        ELSE {[null |-> FALSE, sorted |-> sorted,
               captions |-> assignCaptionsToLanes(mergeDuplicates(sorted))] :
                 sorted \in sortCaptionsByTime(parsed.captions)}

NotParsed == [by |-> "none", null |-> FALSE, sorted |-> <<>>, before |-> <<>>,
              captions |-> <<>>]

ParseInit ==
    /\ parseInput = [header |-> FALSE, blocks |-> <<>>]
    /\ parseOutput = NotParsed

\* parseCaptions applied to the file
ApplyParseCaptions ==
    /\ parseOutput = NotParsed
    /\ \E result \in parseCaptions(parseInput) :
           parseOutput' = [by |-> "parseCaptions", null |-> result.null,
                           sorted |-> result.sorted, before |-> <<>>,
                           captions |-> result.captions]
    /\ UNCHANGED parseInput
    /\ UNCHANGED otherThanParse

\* mergeDuplicates applied once more, to the list parseCaptions returned
ApplyMergeDuplicates ==
    /\ parseOutput.by = "parseCaptions"
    /\ ~parseOutput.null
    /\ parseOutput' = [parseOutput EXCEPT
                          !.by = "mergeDuplicates",
                          !.before = parseOutput.captions,
                          !.captions = mergeDuplicates(parseOutput.captions)]
    /\ UNCHANGED parseInput
    /\ UNCHANGED otherThanParse

ParseNext ==
    \/ ApplyParseCaptions
    \/ ApplyMergeDuplicates

\* one of the three parsers applied to the file, on its own
ParseBy(by, result) ==
    /\ parseOutput = NotParsed
    /\ parseOutput' = [by |-> by, null |-> result.null, sorted |-> <<>>,
                       before |-> <<>>, captions |-> result.captions]
    /\ UNCHANGED parseInput
    /\ UNCHANGED otherThanParse

ApplyParseVTT == ParseBy("parseVTT", parseVTT(parseInput))
ApplyParseASS == ParseBy("parseASS", parseASS(parseInput))
ApplyParseSRT == ParseBy("parseSRT", parseSRT(parseInput))

EntriesNext ==
    \/ ApplyParseVTT
    \/ ApplyParseASS
    \/ ApplyParseSRT

\* ------------------------------------------------------------------------
\* Timestamps: timeToSeconds and formatSrtTime
\* ------------------------------------------------------------------------
\* A string of decimal digits is the sequence of its digits; a timestamp
\* string hh:mm:ss,mmm is the record of its four fields. A number of seconds
\* is kept as the number of milliseconds it stands for.

\* n.toString().padStart(width, '0')
padStart(n, width) ==
    LET RECURSIVE toString(_)
        toString(k) == IF k < 10 THEN <<k>> ELSE toString(k \div 10) \o <<k % 10>>
        digits == toString(n)
    IN  IF Len(digits) >= width THEN digits
        ELSE [i \in 1..width |->
                 IF i <= width - Len(digits) THEN 0
                 ELSE digits[i - (width - Len(digits))]]

\* the timestamp strings of the model: the fields a timing line must have
\* (\d{2}:\d{2}:\d{2},\d{3}), with minutes and seconds below 60
TimeStrings ==
    {[hours |-> padStart(h, 2), minutes |-> padStart(m, 2),
      seconds |-> padStart(sec, 2), ms |-> padStart(ms, 3)] :
        h \in 0..MaxHours, m \in {0, 1, 59}, sec \in {0, 1, 59}, ms \in 0..999}

\* Number of the hours, minutes and seconds and Number of the
\* milliseconds over 1000, summed
timeToSeconds(str) ==
    LET RECURSIVE Number(_)
        Number(digits) ==
            IF digits = <<>> THEN 0
            ELSE 10 * Number(SubSeq(digits, 1, Len(digits) - 1))
                     + digits[Len(digits)]
    IN  Number(str.hours) * 3600000 + Number(str.minutes) * 60000
            + Number(str.seconds) * 1000 + Number(str.ms)

\* formatSrtTime: the strings it can return; every field goes through the
\* same pad, to two digits. Math.floor((seconds % 1) * 1000): the fraction
\* of the double nearest to the sum is not the fraction written in the
\* string, and its product by 1000 falls just below the whole number for
\* some sums (1.001 gives 0.99999...), never for a sum without fraction.
\* Which sums do is a matter of their binary expansion: both outcomes are
\* kept.
formatSrtTime(seconds) ==
    LET floored == IF seconds % 1000 = 0 THEN {0}
                   ELSE {seconds % 1000, (seconds % 1000) - 1}
    IN  {[hours |-> padStart(seconds \div 3600000, 2),
          minutes |-> padStart((seconds % 3600000) \div 60000, 2),
          seconds |-> padStart((seconds % 60000) \div 1000, 2),
          ms |-> padStart(ms, 2)] : ms \in floored}

\* the file of one entry, with its counter line or without: the timing
\* line 00:00:01,000 --> 00:00:03,000 and one line of text, the times as
\* timeToSeconds reads them, in fifths of a second
ScenarioFile(kind) ==
    LET stamp(sec) == [hours |-> padStart(0, 2), minutes |-> padStart(0, 2),
                       seconds |-> padStart(sec, 2), ms |-> padStart(0, 3)]
    IN  [header |-> FALSE,
         blocks |-> <<Block(kind, timeToSeconds(stamp(1)) \div 200,
                            timeToSeconds(stamp(3)) \div 200, "konnichiwa")>>]

NotFormatted == [by |-> "none", str |-> <<>>]

ConvertInit ==
    /\ timeStr = [hours |-> <<0, 0>>, minutes |-> <<0, 0>>, seconds |-> <<0, 0>>,
                  ms |-> <<0, 0, 0>>]
    /\ formatted = NotFormatted

\* the timestamp of a parsed caption written back by downloadSubtitles
ApplyFormatSrtTime ==
    /\ formatted = NotFormatted
    /\ \E str \in formatSrtTime(timeToSeconds(timeStr)) :
           formatted' = [by |-> "formatSrtTime", str |-> str]
    /\ UNCHANGED timeStr
    /\ UNCHANGED otherThanConvert

ConvertNext == ApplyFormatSrtTime

\* ------------------------------------------------------------------------
\* The furigana composable: useFurigana, its cache and processFurigana
\* ------------------------------------------------------------------------
\* A cache is a Map: the sequence of its keys in insertion order (the value
\* of a key is the furigana of the text, the same at every insertion).
\* inserted is the history of the cache: the keys in the order of their
\* latest insertion as a new key.

FuriganaTexts == {"x", "y", "blank"}

MAX_RETRY_COUNT == 3

NewCache == [keys |-> <<>>, inserted |-> <<>>]

\* cache.delete(cache.keys().next().value) when the cache is full, then
\* cache.set(key, value): a key already present keeps its place
addToCache(cache, key) ==
    LET kept == IF Len(cache.keys) >= MAX_CACHE_SIZE /\ cache.keys # <<>>
                THEN Tail(cache.keys) ELSE cache.keys
    IN  [keys |-> IF key \in Range(kept) THEN kept ELSE Append(kept, key),
         inserted |-> IF key \in Range(cache.keys) THEN cache.inserted
                      ELSE Append(SelectSeq(cache.inserted, LAMBDA k : k # key),
                                  key)]

\* processFurigana(text, retryCount) up to its first await, on the instance
\* whose cache is given: the call it leaves behind
processFurigana(instance, cache, text, retryCount) ==
    [instance |-> instance, text |-> text, retryCount |-> retryCount,
     pc |-> IF text = "blank" \/ text \in Range(cache.keys) THEN "done"
            ELSE "fetching",
     answer |-> IF text = "blank" THEN "blank"
                ELSE IF text \in Range(cache.keys) THEN "cache" ELSE "none"]

\* the call with its log: sent counts the fetch requests the call has issued
\* so far, response is what the request now awaited, if any, was answered
Logged(call, sentBefore) ==
    call @@ [sent |-> IF call.pc = "fetching" THEN sentBefore + 1 ELSE sentBefore,
             response |-> "none"]

CacheInit ==
    /\ caches = <<>>
    /\ requests = <<>>

\* loadCaptions of a Japanese track: const { processFurigana } =
\* useFurigana() makes a new instance, and parsed.map calls processFurigana
\* for every caption before any response arrives
UseFurigana(texts) ==
    /\ Len(requests) + Len(texts) <= MaxRequests
    /\ caches' = Append(caches, NewCache)
    /\ requests' = requests \o
           [i \in 1..Len(texts) |->
               Logged(processFurigana(Len(caches) + 1, NewCache, texts[i], 0), 0)]
    /\ UNCHANGED otherThanCache

\* response.ok with a furigana array: the result is cached and returned
ResponseOk(r) ==
    /\ requests[r].pc = "fetching"
    /\ caches' = [caches EXCEPT ![requests[r].instance] =
                      addToCache(@, requests[r].text)]
    /\ requests' = [requests EXCEPT ![r].pc = "done", ![r].answer = "backend",
                                    ![r].response = "ok"]
    /\ UNCHANGED otherThanCache

\* A status of 500 or more that is retried whatever retryCount is.
ResponseServerErrorRetried(r) ==
    /\ requests[r].pc = "fetching"
    /\ requests' = [requests EXCEPT ![r].pc = "delay", ![r].response = "5xx"]
    /\ UNCHANGED caches
    /\ UNCHANGED otherThanCache

\* a status of 500 or more: a retry after RETRY_DELAY while retryCount is
\* below MAX_RETRY_COUNT, the fallback otherwise
ResponseServerError(r) ==
    /\ requests[r].pc = "fetching"
    /\ requests' = IF requests[r].retryCount < MAX_RETRY_COUNT
                   THEN [requests EXCEPT ![r].pc = "delay",
                                         ![r].response = "5xx"]
                   ELSE [requests EXCEPT ![r].pc = "done",
                                         ![r].answer = "fallback",
                                         ![r].response = "5xx"]
    /\ UNCHANGED caches
    /\ UNCHANGED otherThanCache

\* A failure whose fallback is stored in the cache like a result.
ResponseFailureCached(r) ==
    /\ requests[r].pc = "fetching"
    /\ caches' = [caches EXCEPT ![requests[r].instance] =
                      addToCache(@, requests[r].text)]
    /\ requests' = [requests EXCEPT ![r].pc = "done", ![r].answer = "fallback",
                                    ![r].response = "failure"]
    /\ UNCHANGED otherThanCache

\* any other failure (a status below 500, a response without a furigana
\* array, a rejected fetch): the fallback, nothing cached
ResponseFailure(r) ==
    /\ requests[r].pc = "fetching"
    /\ requests' = [requests EXCEPT ![r].pc = "done", ![r].answer = "fallback",
                                    ![r].response = "failure"]
    /\ UNCHANGED caches
    /\ UNCHANGED otherThanCache

\* return processFurigana(text, retryCount + 1) once the delay has elapsed
RetryDelayElapses(r) ==
    /\ requests[r].pc = "delay"
    /\ requests' = [requests EXCEPT ![r] =
                       Logged(processFurigana(@.instance, caches[@.instance],
                                              @.text, @.retryCount + 1),
                              @.sent)]
    /\ UNCHANGED caches
    /\ UNCHANGED otherThanCache

CacheNext ==
    \/ \E n \in 1..MaxRequests : \E texts \in [1..n -> FuriganaTexts] :
           UseFurigana(texts)
    \/ \E r \in DOMAIN requests : ResponseOk(r)
    \/ \E r \in DOMAIN requests : ResponseServerError(r)
    \/ \E r \in DOMAIN requests : ResponseFailure(r)
    \/ \E r \in DOMAIN requests : RetryDelayElapses(r)

\* ------------------------------------------------------------------------
\* The furigana synthesizers: makeFurigana of services/tokenizer.ts (the one
\* the /api/furigana handler calls) and processTokens of the furigana service
\* ------------------------------------------------------------------------
\* One character of each kind the code tells apart: a kanji, a hiragana, a
\* katakana of U+30A1..U+30F6, the prolonged sound mark U+30FC (katakana
\* block, outside that range), a Latin letter and the ASCII space. A string
\* is the sequence of its characters; Undefined is no string at all.

TokenChars == {"kanji", "hiragana", "katakana", "long_mark", "a", "space"}

Undefined == <<"undefined">>

Strings(chars) == UNION {[1..n -> chars] : n \in 0..MaxTokenLen}

\* the tokens of an analyzer: any surface form, and a reading in kana, empty
\* or missing
Tokens ==
    [surface_form : Strings(TokenChars),
     reading : Strings({"hiragana", "katakana", "long_mark"}) \cup {Undefined}]

\* a falsy string: undefined or ''
Falsy(str) == str = Undefined \/ str = <<>>

\* KANJI_REGEX, unanchored
KANJI_REGEX_test(str) == \E i \in 1..Len(str) : str[i] = "kanji"

\* tokens.map of makeFurigana (services/tokenizer.ts)
makeFurigana(tokens) ==
    [i \in 1..Len(tokens) |->
        LET surface == tokens[i].surface_form
            reading == IF Falsy(tokens[i].reading) THEN surface
                       ELSE tokens[i].reading
        IN  [text |-> surface,
             furigana |-> IF reading # surface THEN reading ELSE Undefined]]

\* processTokens (furigana service); KATAKANA_REGEX is anchored and wants one
\* character or more, katakanaToHiragana replaces U+30A1..U+30F6 only
processTokens(tokens) ==
    [i \in 1..Len(tokens) |->
        LET surface_form == tokens[i].surface_form
            reading == tokens[i].reading
            KATAKANA_REGEX_test(str) ==
                /\ str # <<>>
                /\ \A k \in 1..Len(str) : str[k] \in {"katakana", "long_mark"}
            katakanaToHiragana(katakana) ==
                [k \in 1..Len(katakana) |->
                    IF katakana[k] = "katakana" THEN "hiragana" ELSE katakana[k]]
        IN  IF \A k \in 1..Len(surface_form) : surface_form[k] = "space"
            THEN [text |-> surface_form, furigana |-> Undefined]
            ELSE IF Falsy(reading) \/ reading = surface_form
            THEN [text |-> surface_form, furigana |-> Undefined]
            ELSE IF ~KANJI_REGEX_test(surface_form)
            THEN [text |-> surface_form, furigana |-> Undefined]
            ELSE [text |-> surface_form,
                  furigana |-> IF KATAKANA_REGEX_test(reading)
                               THEN katakanaToHiragana(reading) ELSE reading]]

NotSynthesized == [by |-> "none", items |-> <<>>]

ReadingInit ==
    /\ tokenInput = <<>>
    /\ furiganaOutput = NotSynthesized

SynthesizeBy(by, items) ==
    /\ furiganaOutput = NotSynthesized
    /\ furiganaOutput' = [by |-> by, items |-> items]
    /\ UNCHANGED tokenInput
    /\ UNCHANGED otherThanReading

ApplyMakeFurigana == SynthesizeBy("makeFurigana", makeFurigana(tokenInput))

ApplyProcessTokens == SynthesizeBy("processTokens", processTokens(tokenInput))

ReadingNext ==
    \/ ApplyMakeFurigana
    \/ ApplyProcessTokens

\* ------------------------------------------------------------------------
\* Specifications
\* ------------------------------------------------------------------------

\* the store runs in the browser
Init ==
    StoreInit /\ SudachiInit /\ ChainInit /\ server = FALSE /\ SegmentInit
        /\ ParseInit /\ ConvertInit /\ CacheInit /\ ReadingInit

\* tokenizer.ts runs in the browser and on the server
ChainSpecInit ==
    StoreInit /\ SudachiInit /\ ChainInit /\ server \in BOOLEAN /\ SegmentInit
        /\ ParseInit /\ ConvertInit /\ CacheInit /\ ReadingInit

\* every text of up to MaxTextLen characters
SegmentSpecInit ==
    /\ StoreInit /\ SudachiInit /\ ChainInit /\ server = FALSE
    /\ segmentInput \in Texts
    /\ segmentOutput = NotSegmented
    /\ ParseInit /\ ConvertInit /\ CacheInit /\ ReadingInit

\* every file of up to MaxBlocks blocks, of any of the kinds, and the two
\* files of one entry from 1 s to 3 s
ParseSpecInit ==
    /\ StoreInit /\ SudachiInit /\ ChainInit /\ server = FALSE /\ SegmentInit
    /\ \/ \E m \in 0..MaxBlocks : parseInput \in Contents(m)
       \/ \E kind \in {"srt", "unnumbered"} : parseInput = ScenarioFile(kind)
    /\ parseOutput = NotParsed
    /\ ConvertInit /\ CacheInit /\ ReadingInit

\* every file of up to MaxBlocks blocks, of any of the kinds, the entries
\* without a timestamp included
EntriesSpecInit ==
    /\ StoreInit /\ SudachiInit /\ ChainInit /\ server = FALSE /\ SegmentInit
    /\ \E m \in 0..MaxBlocks : parseInput \in EntryFiles(m)
    /\ parseOutput = NotParsed
    /\ ConvertInit /\ CacheInit /\ ReadingInit

\* every SubRip file of up to MaxCaptions entries
ArrangeSpecInit ==
    /\ StoreInit /\ SudachiInit /\ ChainInit /\ server = FALSE /\ SegmentInit
    /\ \E m \in 0..MaxCaptions : parseInput \in SrtFiles(m)
    /\ parseOutput = NotParsed
    /\ ConvertInit /\ CacheInit /\ ReadingInit

\* every SubRip file of up to MaxCaptions entries of distinct texts
LanesSpecInit ==
    /\ StoreInit /\ SudachiInit /\ ChainInit /\ server = FALSE /\ SegmentInit
    /\ \E m \in 0..MaxCaptions : parseInput \in DistinctFiles(m)
    /\ parseOutput = NotParsed
    /\ ConvertInit /\ CacheInit /\ ReadingInit

\* every timestamp string of the model
ConvertSpecInit ==
    /\ StoreInit /\ SudachiInit /\ ChainInit /\ server = FALSE /\ SegmentInit
    /\ ParseInit
    /\ timeStr \in TimeStrings
    /\ formatted = NotFormatted
    /\ CacheInit /\ ReadingInit

\* every list of 1..MaxTokens tokens
ReadingSpecInit ==
    /\ StoreInit /\ SudachiInit /\ ChainInit /\ server = FALSE /\ SegmentInit
    /\ ParseInit /\ ConvertInit /\ CacheInit
    /\ \E n \in 1..MaxTokens : tokenInput \in [1..n -> Tokens]
    /\ furiganaOutput = NotSynthesized

SpecStore == Init /\ [][StoreNext]_vars

SpecLoad == Init /\ [][LoadNext]_vars

SpecSudachi == Init /\ [][SudachiNext]_vars

SpecChain == ChainSpecInit /\ [][ChainNext]_vars

\* What the event loop owes a call: a continuation whose promise has settled
\* runs, a retry delay elapses, a request to the Sudachi service settles (each
\* has a timeout).
CallProgress(c) ==
    \/ \E analysis \in Analyses : TokenizeInitSettles(c, analysis)
    \/ \E analysis \in Analyses : TokenizeDelayElapses(c, analysis)
    \/ \E analysis \in Analyses : KuromojiInitSettles(c, analysis)
    \/ \E analysis \in Analyses : KuromojiDelayElapses(c, analysis)
    \/ SudachiReturns(c)
    \/ \E ok \in BOOLEAN :
           calls[c].pc = "sudachi" /\ ~ContinuationReady /\ HealthSettles(c, ok)
    \/ \E response \in {"array", "invalid", "error"} :
           calls[c].pc = "sudachi" /\ ~ContinuationReady /\ AnalyzeSettles(c, response)

\* What it owes a promise: the build reports success or failure, the retry
\* timer fires, the executor goes on once the promise it awaits has settled.
PromiseProgress(p) ==
    \/ \E ok \in BOOLEAN : BuildSettles(p, ok)
    \/ KuromojiRetryTimer(p)
    \/ ExecutorResumes(p)
    \/ TokenizerRetryTimer(p)

\* The chain on the server with the default method, kuromoji: the calls, the
\* builds and the timers of the two initializeTokenizer functions.
InitializationNext ==
    \/ \E c \in Callers, text \in {"blank", "text"}, analysis \in Analyses :
           tokenize(c, text, analysis)
    \/ \E c \in Callers, analysis \in Analyses : TokenizeInitSettles(c, analysis)
    \/ \E c \in Callers, analysis \in Analyses : TokenizeDelayElapses(c, analysis)
    \/ \E c \in Callers, analysis \in Analyses : KuromojiInitSettles(c, analysis)
    \/ \E c \in Callers, analysis \in Analyses : KuromojiDelayElapses(c, analysis)
    \/ \E p \in PromiseIds, ok \in BOOLEAN : BuildSettles(p, ok)
    \/ \E p \in PromiseIds : KuromojiRetryTimer(p)
    \/ \E q \in PromiseIds : ExecutorResumes(q)
    \/ \E q \in PromiseIds : TokenizerRetryTimer(q)

\* a step the event loop owes a call or a promise
Progress ==
    \/ \E c \in Callers : CallProgress(c)
    \/ \E p \in PromiseIds : PromiseProgress(p)

\* the enabling condition of Progress: a continuation is ready, or a delay,
\* a build, a timer or a request is pending and no continuation is ready
Runnable ==
    \/ ContinuationReady
    \/ /\ ~ContinuationReady
       /\ \/ \E c \in Callers :
                 \/ calls[c].pc \in {"tokenize_delay", "kuromoji_delay"}
                 \/ /\ calls[c].pc = "sudachi"
                    /\ sudachiCalls[c].pc \in {"health", "analyze"}
          \/ \E p \in PromiseIds :
                 promises[p] = BuildPromise \/ promises[p].on = "timer"

\* The analyzer chain under that scheduling: weak fairness of Progress, with
\* ENABLED <<Progress>>_vars written as the state predicate Runnable. Whether
\* a build succeeds, and whether and when tokenize is called, stays free.
SpecChainLive ==
    /\ ChainSpecInit /\ [][InitializationNext]_vars
    /\ (<>[]Runnable => []<><<Progress>>_vars)

SpecSegment == SegmentSpecInit /\ [][SegmentNext]_vars

SpecParse == ParseSpecInit /\ [][ParseNext]_vars

SpecEntries == EntriesSpecInit /\ [][EntriesNext]_vars

SpecArrange == ArrangeSpecInit /\ [][ParseNext]_vars

SpecLanes == LanesSpecInit /\ [][ParseNext]_vars

SpecConvert == ConvertSpecInit /\ [][ConvertNext]_vars

SpecCache == Init /\ [][CacheNext]_vars

SpecReading == ReadingSpecInit /\ [][ReadingNext]_vars

\* ------------------------------------------------------------------------
\* Claims about the captions store
\* ------------------------------------------------------------------------

\* the ids updateActiveCaptions' filter gives for the state as it is
ExpectedActiveIds ==
    {c.id : c \in {d \in Range(captions) :
                       d.startTime <= currentTime /\ currentTime <= d.endTime}}

\* C1: in every reachable state activeCaptionIds is exactly the set of ids
\* of the active track's captions with startTime <= currentTime <= endTime
\* (empty when there is no active track).
C1_ActiveIdsNeverStale == Range(activeCaptionIds) = ExpectedActiveIds

\* C10: every track in subtitleTracks has all its enrichment tasks settled,
\* and no step changes a caption of a track that stays published.
C10_PublishedAfterSettlement ==
    /\ [](\A l \in Range(subtitleTracks) :
            \A i \in 1..Len(loads[l].captions) : loads[l].captions[i].pc = "done")
    /\ [][\A l \in Range(subtitleTracks) \cap Range(subtitleTracks') :
            loads'[l].captions = loads[l].captions]_vars

\* C10 witness: a two-caption track is published with both captions
\* annotated by their tasks while another load is still being enriched.
C10_Witness ==
    /\ \E l \in Range(subtitleTracks) :
           /\ Len(loads[l].captions) = 2
           /\ \A i \in 1..2 : loads[l].captions[i].furigana # "absent"
    /\ \E k \in LoadIds :
           /\ loads[k].status = "enriching"
           /\ \E i \in 1..Len(loads[k].captions) : loads[k].captions[i].pc # "done"

\* ------------------------------------------------------------------------
\* Claims about the remote segmenter
\* ------------------------------------------------------------------------

\* C6: any two GET /health requests are at least CHECK_INTERVAL apart.
C6_OneProbePerInterval ==
    \A i, j \in 1..Len(healthLog) :
        i < j => healthLog[j] - healthLog[i] >= CHECK_INTERVAL

TokenResults ==
    {"empty", "kuromoji_tokens", "kuromoji_split", "sudachi_tokens",
     "sudachi_split", "simple"}

TrivialResults == {"kuromoji_split", "sudachi_split", "simple"}

\* C2: no tokenize call ends by throwing: a call that has ended has
\* returned a token sequence, and a call that has not ended waits for a
\* promise that exists, so that it is never left without a continuation.
C2_TokenizeNeverRejects ==
    \A c \in Callers :
        /\ calls[c].result # "rejected"
        /\ calls[c].pc = "done" => calls[c].result \in TokenResults
        /\ calls[c].pc \in {"tokenize_init", "kuromoji_init"} =>
               /\ calls[c].wait \in PromiseIds
               /\ promises[calls[c].wait].st # "free"

\* C2 witness: on the server a call was never dispatched because
\* initialisation failed on each of its three tries, and it has returned
\* the simple segmentation.
C2_Witness ==
    /\ server
    /\ \E c \in Callers :
           /\ calls[c].pc = "done"
           /\ calls[c].result = "simple"
           /\ calls[c].retryCount = MAX_TRIES_AFTER_FIRST
           /\ calls[c].tried = {}
           /\ ~calls[c].unknownMethod

BuildsInFlight == {p \in PromiseIds : promises[p] = BuildPromise}

\* C3: at most one dictionary build is in flight at any time.
C3_SingleFlight == Cardinality(BuildsInFlight) <= 1

\* C4: once MAX_INIT_ATTEMPTS attempts have been made since the last reset
\* and none of them is in flight or has produced the tokenizer, no step
\* starts another attempt.
C4_FailedStaysFailed ==
    [][(/\ ~kuromojiModule.tokenizer
        /\ kuromojiModule.initializationAttempts >= MAX_INIT_ATTEMPTS
        /\ BuildsInFlight = {})
       => kuromojiModule'.initializationAttempts
              <= kuromojiModule.initializationAttempts]_vars

Layers == {"kuromoji", "tokenizer"}

ConsecutiveErrors(layer) ==
    IF layer = "kuromoji" THEN kuromojiModule.consecutiveErrors
    ELSE tokenizerModule.consecutiveErrors

\* the state the reset leaves a module in
Uninitialized(layer) ==
    IF layer = "kuromoji"
    THEN /\ ~kuromojiModule.tokenizer
         /\ ~kuromojiModule.isInitializing
         /\ kuromojiModule.initializationPromise = 0
         /\ kuromojiModule.initializationAttempts = 0
    ELSE /\ ~tokenizerModule.isInitialized
         /\ ~tokenizerModule.isInitializing
         /\ tokenizerModule.initializationPromise = 0
         /\ tokenizerModule.initializationAttempts = 0

\* C8 as stated: a module is reset by its fifth consecutive failed try and
\* by no other step.
C8_ResetAtFiveFailures ==
    /\ [](\A layer \in Layers : audit[layer].failures < MAX_CONSECUTIVE_ERRORS)
    /\ [][\A layer \in Layers :
            audit'[layer].resets # audit[layer].resets =>
                audit[layer].failures = MAX_CONSECUTIVE_ERRORS - 1]_vars

\* C8: a failed try resets its module when, and only when, it brings the
\* module's consecutiveErrors (which failed initialisation attempts raise
\* too, and which the reset leaves as it is) to MAX_CONSECUTIVE_ERRORS or
\* more; no other step resets; the reset leaves the module Uninitialized.
C8_ResetAtErrorThreshold ==
    [][\A layer \in Layers :
         LET failed == \/ audit'[layer].failures = audit[layer].failures + 1
                       \/ audit'[layer].resets # audit[layer].resets
             reset  == audit'[layer].resets # audit[layer].resets
         IN  /\ reset => failed
             /\ failed =>
                  /\ ConsecutiveErrors(layer)' = ConsecutiveErrors(layer) + 1
                  /\ reset <=> ConsecutiveErrors(layer)' >= MAX_CONSECUTIVE_ERRORS
             /\ reset => Uninitialized(layer)']_vars

\* C8 witness: kuromoji.ts has been reset after fewer than five failed
\* tries in all, and a call made after the reset has started attempt 1.
C8_Witness ==
    /\ audit["kuromoji"].resets = 1
    /\ audit["kuromoji"].failures = 0
    /\ kuromojiModule.initializationAttempts = 1
    /\ kuromojiModule.isInitializing
    /\ BuildsInFlight # {}

\* C35: every tokenize call terminates: a call never makes more than
\* 1 + MAX_TRIES_AFTER_FIRST tries, and a call that has started has
\* eventually returned, whatever the builds report and whatever the other
\* caller does.
C35_TokenizeTerminates ==
    /\ [](\A c \in Callers : calls[c].retryCount <= MAX_TRIES_AFTER_FIRST)
    /\ \A c \in Callers : (calls[c].pc # "idle") ~> (calls[c].pc = "done")

\* on the server a call has returned after three tries while the attempt
\* counter of tokenizer.ts, zeroed by a reset, counts again, and the other
\* caller's call has ended as well
C35_Witness ==
    /\ server
    /\ audit.tokenizer.resets > 0
    /\ \A c \in Callers : calls[c].pc = "done"
    /\ \E c \in Callers : /\ calls[c].retryCount = MAX_TRIES_AFTER_FIRST
                           /\ calls[c].result = "simple"

\* ------------------------------------------------------------------------
\* Claims about the fallback segmentation
\* ------------------------------------------------------------------------

\* C9 as stated: every text that is not empty is given at least one token.
C9_NonEmptyGivesToken ==
    (segmentOutput.by # "none" /\ segmentInput # <<>>) =>
        Len(segmentOutput.tokens) >= 1

\* C9: every text with a character that is not whitespace is given at least
\* one token, by simpleTokenize and by the two functions that end in it or
\* in its copy; a text of whitespace alone is given none by tokenize and by
\* analyzeKuromoji, whose guards return before segmenting.
C9_NonBlankGivesToken ==
    segmentOutput.by # "none" =>
        /\ ~IsBlank(segmentInput) => Len(segmentOutput.tokens) >= 1
        /\ (IsBlank(segmentInput) /\ segmentOutput.by # "simpleTokenize") =>
               segmentOutput.tokens = <<>>

\* C9 witness: a text of a Latin letter, an ideographic space and a kana
\* has been split into its two characters that are not whitespace.
C9_Witness ==
    /\ segmentInput = <<"a", "ideographic_space", "kana">>
    /\ segmentOutput = [by |-> "simpleTokenize", tokens |-> << <<"a">>, <<"kana">> >>]

\* C33: on every path that ends in the fallback segmentation, a text that
\* is not blank and has a character JAPANESE_REGEX matches is split into one
\* token per character that is not whitespace, and a text without such a
\* character into its whitespace runs and the pieces between them.
C33_FallbackSplitsByScript ==
    (segmentOutput.by # "none" /\ ~IsBlank(segmentInput)) =>
        segmentOutput.tokens =
            IF JAPANESE_REGEX_test(segmentInput) THEN CharTokens(segmentInput)
            ELSE SelectSeq(Split(segmentInput), NotEmpty)

\* ------------------------------------------------------------------------
\* Claims about the loader: failures, clearing, duplicates, reports
\* ------------------------------------------------------------------------

PublishedLoads == Range(subtitleTracks)

C12_ClearDiscardsLoad ==
    \A l \in PublishedLoads : ~loads[l].stale

\* C13: no two tracks of subtitleTracks have the same language, the same
\* title and the same number of captions.
C13_NoDuplicateTracks ==
    \A i, j \in 1..Len(subtitleTracks) :
        (i # j) =>
            ~ /\ loads[subtitleTracks[i]].language = loads[subtitleTracks[j]].language
              /\ loads[subtitleTracks[i]].title = loads[subtitleTracks[j]].title
              /\ Len(loads[subtitleTracks[i]].captions) =
                     Len(loads[subtitleTracks[j]].captions)

\* C14: a load rejected as a duplicate track is never reported to the user
\* as a file that failed to parse.
C14_DuplicateNotReportedFailed ==
    \A l \in LoadIds :
        loads[l].status = "duplicate" => loads[l].report # "failed_to_parse"

\* ------------------------------------------------------------------------
\* Claims about the parsers and the passes of parseCaptions
\* ------------------------------------------------------------------------

\* C15: parseCaptions never returns an empty list: a file in which the
\* parsers find no entry gives null, so that no track of zero captions can
\* be published.
C15_EmptyNeverReturned ==
    parseOutput.by = "parseCaptions" =>
        (parseOutput.null \/ parseOutput.captions # <<>>)

\* C16: every caption parseCaptions returns ends strictly after it starts.
C16_EndAfterStart ==
    (parseOutput.by = "parseCaptions" /\ ~parseOutput.null) =>
        \A i \in 1..Len(parseOutput.captions) :
            parseOutput.captions[i].endTime > parseOutput.captions[i].startTime

\* C30 as stated: the file made of the timing line
\* 00:00:01,000 --> 00:00:03,000 and the text line alone parses to exactly
\* one caption, from 1.0 s to 3.0 s (5 and 15 fifths), with that text.
C30_TwoLineEntryParsed ==
    (parseOutput.by = "parseCaptions" /\ parseInput = ScenarioFile("unnumbered"))
        => /\ ~parseOutput.null
           /\ Len(parseOutput.captions) = 1
           /\ parseOutput.captions[1].startTime = 5
           /\ parseOutput.captions[1].endTime = 15
           /\ parseOutput.captions[1].text = "konnichiwa"

\* C30 as amended: with a counter line before the timing line the file
\* parses to exactly one caption, from 1.0 s to 3.0 s, with that text;
\* without the counter line it parses to no caption.
C30_NumberedEntryParsed ==
    parseOutput.by = "parseCaptions" =>
        /\ parseInput = ScenarioFile("srt")
               => /\ ~parseOutput.null
                  /\ Len(parseOutput.captions) = 1
                  /\ parseOutput.captions[1].startTime = 5
                  /\ parseOutput.captions[1].endTime = 15
                  /\ parseOutput.captions[1].text = "konnichiwa"
        /\ parseInput = ScenarioFile("unnumbered")
               => ~parseOutput.null /\ parseOutput.captions = <<>>

C30_Witness ==
    /\ parseOutput.by = "parseCaptions"
    /\ parseInput = ScenarioFile("srt")
    /\ Len(parseOutput.captions) = 1

InTimeOrder(caps) ==
    \A i \in 1..(Len(caps) - 1) :
        \/ caps[i].startTime < caps[i + 1].startTime
        \/ /\ caps[i].startTime = caps[i + 1].startTime
           /\ caps[i].endTime <= caps[i + 1].endTime

\* C17: the list is in non-decreasing order of start time, ties in
\* non-decreasing order of end time, after the sort and still in the list
\* parseCaptions returns, after the merge pass.
C17_TimeOrderKept ==
    parseOutput.by = "parseCaptions" =>
        (InTimeOrder(parseOutput.sorted) /\ InTimeOrder(parseOutput.captions))

\* C17 witness: three entries given out of order; the merge pass has removed
\* the first caption of the sorted list and widened the second, to an earlier
\* start and a later end, and a third caption follows it.
C17_Witness ==
    /\ parseOutput.by = "parseCaptions"
    /\ Len(parseInput.blocks) = 3
    /\ parseInput.blocks[1].startTime > parseInput.blocks[3].startTime
    /\ Len(parseOutput.captions) = 2
    /\ parseOutput.captions[1].startTime < parseOutput.sorted[2].startTime
    /\ parseOutput.captions[1].endTime > parseOutput.sorted[2].endTime
    /\ parseOutput.captions[2].text # parseOutput.captions[1].text

\* both captions are shown at some time: the filter of updateActiveCaptions
\* (startTime <= t <= endTime) holds of both for one t
ShownTogether(a, b) ==
    /\ a.startTime <= b.endTime
    /\ b.startTime <= a.endTime
    /\ a.startTime <= a.endTime
    /\ b.startTime <= b.endTime

\* C18: no two captions of a parsed track that were assigned the same lane
\* overlap in time.
C18_LaneHoldsOneCaption ==
    parseOutput.by = "parseCaptions" =>
        \A i, j \in 1..Len(parseOutput.captions) :
            (i < j /\ parseOutput.captions[i].lane = parseOutput.captions[j].lane) =>
                ~ShownTogether(parseOutput.captions[i], parseOutput.captions[j])

\* the length of the intersection of two spans, 0 when they do not meet
Intersection(a, b) ==
    Max(0, Min(a.endTime, b.endTime) - Max(a.startTime, b.startTime))

\* C19: two adjacent captions of identical text are merged if and only if
\* their intersection exceeds 0.2 s or 30% of the duration of the later one.
C19_MergedIffIntersecting ==
    (/\ parseOutput.by = "parseCaptions"
     /\ Len(parseOutput.sorted) = 2
     /\ parseOutput.sorted[1].text = parseOutput.sorted[2].text) =>
        LET a == parseOutput.sorted[1]
            b == parseOutput.sorted[2]
        IN  (Len(parseOutput.captions) = 1) <=>
                \/ Intersection(a, b) > OVERLAP_SECONDS
                \/ 10 * Intersection(a, b) > 3 * (b.endTime - b.startTime)

\* C20: mergeDuplicates applied to the list a first run returned removes no
\* caption and changes no span.
C20_MergeIdempotent ==
    parseOutput.by = "mergeDuplicates" =>
        parseOutput.captions = parseOutput.before

\* C21: three captions of distinct texts with one and the same span, of
\* positive duration, have the lanes 0, 1 and 2 in the order of the list
\* parseCaptions returns.
C21_IdenticalSpansStack ==
    (/\ parseOutput.by = "parseCaptions"
     /\ Len(parseOutput.captions) = 3
     /\ \A i \in 1..3 :
            /\ parseOutput.captions[i].startTime = parseOutput.captions[1].startTime
            /\ parseOutput.captions[i].endTime = parseOutput.captions[1].endTime
            /\ parseOutput.captions[i].endTime > parseOutput.captions[i].startTime) =>
        \A i \in 1..3 : parseOutput.captions[i].lane = i - 1

\* C21 witness: three captions of distinct texts, all spanning the first two
\* fifths of a second, with the lanes 0, 1 and 2.
C21_Witness ==
    /\ parseOutput.by = "parseCaptions"
    /\ Len(parseOutput.captions) = 3
    /\ \A i \in 1..3 :
           /\ parseOutput.captions[i].startTime = 0
           /\ parseOutput.captions[i].endTime = 2
           /\ parseOutput.captions[i].lane = i - 1
    /\ parseOutput.captions[1].text # parseOutput.captions[2].text
    /\ parseOutput.captions[2].text # parseOutput.captions[3].text
    /\ parseOutput.captions[1].text # parseOutput.captions[3].text

\* C31: every caption of a parsed track has the smallest lane that no
\* earlier caption within the look-back whose interval intersects its own
\* holds; so a caption whose interval meets no earlier one has lane 0, and
\* a track of sequential captions is all in lane 0. (Stated of tracks whose
\* captions all end after they start.)
C31_SmallestFreeLane ==
    (/\ parseOutput.by = "parseCaptions"
     /\ \A i \in 1..Len(parseOutput.captions) :
            parseOutput.captions[i].endTime > parseOutput.captions[i].startTime) =>
        LET caps == parseOutput.captions
            lanes == [i \in 1..Len(caps) |-> caps[i].lane]
            held(i) == {lanes[j] : j \in {k \in findPreviousCaptions(lanes, i) :
                                             ShownTogether(caps[k], caps[i])}}
        IN  \A i \in 1..Len(caps) :
                /\ lanes[i] \notin held(i)
                /\ \A smaller \in 0..(lanes[i] - 1) : smaller \in held(i)

\* the captions i-1 and i of a sorted list are a pair that one pass merges:
\* they have the same text and isOverlapping holds of caption i-1, starting
\* where the run of merged pairs it ends starts, and caption i.
\* RunStart: the first index of the run of merged pairs that ends at i.
RECURSIVE MergedPair(_, _)
RECURSIVE RunStart(_, _)
MergedPair(s, i) ==
    /\ i \in 2..Len(s)
    /\ s[i - 1].text = s[i].text
    /\ LET starts == {s[j].startTime : j \in RunStart(s, i - 1)..(i - 1)}
           first == CHOOSE t \in starts : \A u \in starts : t <= u
       IN  isOverlapping([s[i - 1] EXCEPT !.startTime = first], s[i])

RunStart(s, i) == IF MergedPair(s, i) THEN RunStart(s, i - 1) ELSE i

\* C32: one pass of mergeDuplicates over a time-sorted list keeps exactly
\* the captions that are not the earlier one of a merged pair, in their
\* order; each one kept has its text and the union of the spans of the run
\* of merged pairs it ends, so a caption in no merged pair is kept unchanged
\* and a run of k identical captions collapses into one spanning the run.
C32_MergeUnitesRuns ==
    parseOutput.by = "parseCaptions" =>
        LET s == parseOutput.sorted
            r == parseOutput.captions
            Kept(i) == ~MergedPair(s, i + 1)
            kept == SelectSeq([i \in 1..Len(s) |-> i], Kept)
            Run(i) == {s[j] : j \in RunStart(s, i)..i}
        IN  /\ Len(r) = Len(kept)
            /\ \A k \in 1..Len(kept) :
                   /\ r[k].text = s[kept[k]].text
                   /\ \A c \in Run(kept[k]) :
                          r[k].startTime <= c.startTime /\ c.endTime <= r[k].endTime
                   /\ \E c \in Run(kept[k]) : r[k].startTime = c.startTime
                   /\ \E c \in Run(kept[k]) : r[k].endTime = c.endTime

\* three captions of one text collapsed into one that is wider than the
\* last of them
C32_Witness ==
    /\ parseOutput.by = "parseCaptions"
    /\ Len(parseOutput.sorted) = 3
    /\ Len(parseOutput.captions) = 1
    /\ parseOutput.captions[1].startTime < parseOutput.sorted[3].startTime
    /\ parseOutput.captions[1].endTime > parseOutput.sorted[3].endTime

\* C26: the captions of a track loaded with a declared language other than
\* 'ja' and 'jpn' have no enrichment task at any time (no processFurigana and
\* no tokenize call is pending or was made for them), and their furigana and
\* tokens are absent, before and after the track is published. (A track's
\* language is "unknown" when none was declared.)
C26_NonJapaneseSkipped ==
    \A l \in LoadIds :
        (/\ loads[l].status \in {"enriching", "published"}
         /\ loads[l].language \notin {"ja", "jpn", "unknown"})
            => \A i \in 1..Len(loads[l].captions) :
                   /\ loads[l].captions[i].pc = "done"
                   /\ loads[l].captions[i].furigana = "absent"
                   /\ loads[l].captions[i].tokens = "absent"

C26_Witness ==
    \E l \in PublishedLoads :
        /\ loads[l].language = "en"
        /\ \E i \in 1..Len(loads[l].captions) :
               loads[l].captions[i].text # "blank"

\* C27: with n >= 2 tracks, a step of cycleActiveTrack starts from an index
\* in 0..n-1 and sets activeTrackIndex to (activeTrackIndex + 1) mod n, the
\* track list unchanged, so that n such steps in a row come back to the index
\* they started from; with 0 or 1 track the step changes nothing.
C27_CycleAdvancesModulo ==
    [][cycleActiveTrack =>
          IF Len(subtitleTracks) >= 2
          THEN /\ activeTrackIndex \in 0..(Len(subtitleTracks) - 1)
               /\ activeTrackIndex' =
                      (activeTrackIndex + 1) % Len(subtitleTracks)
               /\ activeTrackIndex' \in 0..(Len(subtitleTracks) - 1)
               /\ subtitleTracks' = subtitleTracks
          ELSE UNCHANGED storeVars]_vars

\* two tracks, and the second one active
C27_Witness ==
    /\ Len(subtitleTracks) >= 2
    /\ activeTrackIndex = Len(subtitleTracks) - 1
    /\ activeCaptionIds # <<>>

C29_AllActiveCaptions ==
    LET others == UNION {Range(loads[subtitleTracks[n]].captions) :
                            n \in {k \in 1..Len(subtitleTracks) :
                                      k # activeTrackIndex + 1}}
        primary == {c \in Range(captions) : c.id \in Range(activeCaptionIds)}
        secondary == {c \in others : c.startTime <= currentTime
                                     /\ currentTime <= c.endTime}
    IN  /\ Range(allActiveCaptions) =
               primary \cup (IF showSecondarySubtitles THEN secondary ELSE {})
        /\ Len(allActiveCaptions) = Cardinality(Range(allActiveCaptions))
        /\ ~showSecondarySubtitles => Range(allActiveCaptions) \cap others = {}

\* the toggle is off while a caption of another track contains the current
\* time, and the list holds a caption of the active track
C29_Witness ==
    /\ ~showSecondarySubtitles
    /\ allActiveCaptions # <<>>
    /\ \E n \in 1..Len(subtitleTracks) :
           /\ n # activeTrackIndex + 1
           /\ ActiveAt(loads[subtitleTracks[n]].captions, currentTime) # <<>>

\* what C38 says of a step that plays the caption c
Played(c) ==
    /\ c.startTime <= currentTime' /\ currentTime' <= c.endTime
    /\ activeCaptionIds' = <<c.id>>

\* C38: after playCaption(c) the current time lies in the interval of c and
\* activeCaptionIds is exactly <<c.id>>; nextCaption plays the caption after
\* the last active one, previousCaption the caption before the first active
\* one, and each leaves the state as it is when no caption is active or the
\* caption is the last (the first) of the track.
C38_PlayedCaptionIsActive ==
    [][/\ \A c \in PublishedCaptions : playCaption(c) => Played(c)
       /\ nextCaption =>
              LET index == IF activeCaptions = <<>> THEN 0
                           ELSE FindIndex(captions,
                                          activeCaptions[Len(activeCaptions)].id)
              IN  IF index = 0 \/ index = Len(captions) THEN UNCHANGED vars
                  ELSE Played(captions[index + 1])
       /\ previousCaption =>
              LET index == IF activeCaptions = <<>> THEN 0
                           ELSE FindIndex(captions, activeCaptions[1].id)
              IN  IF index <= 1 THEN UNCHANGED vars
                  ELSE Played(captions[index - 1])]_vars

\* the track of load k was loaded from file f with these arguments (an omitted
\* title shows as one of the default titles, an omitted language as 'unknown')
LoadedWith(k, f, language, title) ==
    /\ k \in Range(subtitleTracks)
    /\ loads[k].language = TrackLanguage(language)
    /\ IF title = "undefined" THEN loads[k].title \in Range(DefaultTitles)
       ELSE loads[k].title = title
    /\ [i \in 1..Len(loads[k].captions) |->
           Cap(loads[k].captions[i].startTime, loads[k].captions[i].endTime,
               loads[k].captions[i].text)] = ParsedFile(f)

\* C39: a loadCaptions call that follows a finished call with the same
\* content and the same arguments, omitted ones included, is recognised as a
\* duplicate: it returns at the duplicate check and no track is added for it.
C39_SecondLoadIsDuplicate ==
    [][\A f \in Files, language \in Languages, title \in Titles :
           (/\ nLoads > 0
            /\ LoadedWith(nLoads, f, language, title)
            /\ LoadStart(f, language, title))
               => loads'[nLoads'].status = "duplicate"]_vars

\* C40: in every reachable state activeTrackIndex is a valid index: 0 when
\* no track is loaded, and at least 0 and less than the number of tracks
\* otherwise.
C40_ActiveTrackIndexValid ==
    IF subtitleTracks = <<>> THEN activeTrackIndex = 0
    ELSE activeTrackIndex >= 0 /\ activeTrackIndex < Len(subtitleTracks)

\* a load that was in flight when clearCaptions ran has published its track,
\* a second track was loaded after it, and the second track is the active one
C40_Witness ==
    /\ Len(subtitleTracks) = 2
    /\ activeTrackIndex = 1
    /\ loads[subtitleTracks[1]].stale

\* C34: each of the three parsers discards an entry whose start or end
\* timestamp cannot be parsed, or which has too few fields, and keeps the
\* other entries of its format: what it returns is the list of the well-formed
\* entries of that format, in file order, and no caption in it has a NaN time.
C34_MalformedEntriesDiscarded ==
    LET format == CASE parseOutput.by = "parseVTT" -> {"vtt"}
                    [] parseOutput.by = "parseASS" -> {"ass"}
                    [] parseOutput.by = "parseSRT" -> {"srt"}
                    [] OTHER -> {}
    IN  (format # {} /\ ~parseOutput.null) =>
            /\ \A i \in 1..Len(parseOutput.captions) :
                   /\ parseOutput.captions[i].startTime # NaN
                   /\ parseOutput.captions[i].endTime # NaN
            /\ parseOutput.captions = Entries(parseInput.blocks, format)

\* ------------------------------------------------------------------------
\* Claims about the timestamp conversions
\* ------------------------------------------------------------------------

\* C22: formatting the seconds parsed from a timestamp string gives the
\* string back, to the millisecond.
C22_RoundTrip ==
    formatted.by = "formatSrtTime" => formatted.str = timeStr

\* ------------------------------------------------------------------------
\* Claims about the furigana cache
\* ------------------------------------------------------------------------

\* C23: a cache never holds more than MAX_CACHE_SIZE entries, and of the
\* keys inserted into it, it holds the MAX_CACHE_SIZE most recently inserted
\* ones (all of them while they are no more than that): the keys gone are
\* the first inserted.
C23_CapacityAndInsertionOrder ==
    \A i \in DOMAIN caches :
        LET n == Len(caches[i].inserted)
        IN  /\ Len(caches[i].keys) <= MAX_CACHE_SIZE
            /\ Range(caches[i].keys) =
                   {caches[i].inserted[j] :
                        j \in (IF n > MAX_CACHE_SIZE THEN n - MAX_CACHE_SIZE + 1
                               ELSE 1)..n}

\* C24: a call of processFurigana for a text that some cache of the session
\* holds (the text was enriched successfully and its entry not evicted)
\* sends no request to the backend.
C24_AnsweredFromCache ==
    [][\A r \in DOMAIN requests' :
           (/\ requests'[r].pc = "fetching"
            /\ r \in DOMAIN requests => requests[r].pc # "fetching")
               => ~\E i \in DOMAIN caches :
                       requests'[r].text \in Range(caches[i].keys)]_vars

\* the calls of an instance for a text that ended with the given answer
Answered(instance, text, answer) ==
    {r \in DOMAIN requests : /\ requests[r].instance = instance
                             /\ requests[r].text = text
                             /\ requests[r].answer = answer}

\* C36: only successful backend results enter a cache. Every key of a cache
\* is the text of a call of that instance the backend answered; a step in
\* which a call ends in its fallback leaves every cache as it was; and a call
\* that enters processFurigana for a text for which calls of its instance
\* ended in the fallback, and none in a backend result, sends a request.
C36_OnlyResultsCached ==
    /\ [](\A i \in DOMAIN caches : \A k \in Range(caches[i].keys) :
             Answered(i, k, "backend") # {})
    /\ [][\A r \in DOMAIN requests' :
             LET old == IF r \in DOMAIN requests THEN requests[r].pc ELSE "delay"
                 call == requests'[r]
             IN  /\ (old = "fetching" /\ call.answer = "fallback")
                        => caches' = caches
                 /\ (/\ old = "delay" /\ call.pc # "delay"
                     /\ Answered(call.instance, call.text, "fallback") # {}
                     /\ Answered(call.instance, call.text, "backend") = {})
                        => call.pc = "fetching"]_vars

\* a call ended in its fallback while its instance holds a result for another
\* text, and a call of the same instance for the same text, back from its
\* retry delay, has sent a request
C36_Witness ==
    \E r, q \in DOMAIN requests :
        /\ requests[r].answer = "fallback"
        /\ requests[r].response = "failure"
        /\ caches[requests[r].instance].keys # <<>>
        /\ requests[r].text \notin Range(caches[requests[r].instance].keys)
        /\ q # r
        /\ requests[q].instance = requests[r].instance
        /\ requests[q].text = requests[r].text
        /\ requests[q].retryCount > 0
        /\ requests[q].pc = "fetching"

\* C37: a call of processFurigana sends at most 1 + MAX_RETRY_COUNT requests;
\* it waits for a retry only after a status of 500 or more and sends another
\* request only after that wait; after any other failure, and after a status
\* of 500 or more once retryCount is MAX_RETRY_COUNT, it is resolved with
\* the fallback.
C37_BoundedRetries ==
    /\ [](\A r \in DOMAIN requests :
             LET call == requests[r]
             IN  /\ call.sent <= 1 + MAX_RETRY_COUNT
                 /\ call.pc = "delay" => call.response = "5xx"
                 /\ call.response = "failure"
                        => call.pc = "done" /\ call.answer = "fallback"
                 /\ (call.response = "5xx" /\ call.pc # "delay")
                        => /\ call.pc = "done" /\ call.answer = "fallback"
                           /\ call.retryCount = MAX_RETRY_COUNT)
    /\ [][\A r \in DOMAIN requests :
             requests'[r].sent # requests[r].sent
                => /\ requests[r].pc = "delay" /\ requests[r].response = "5xx"
                   /\ requests'[r].sent = requests[r].sent + 1]_vars

\* a call that has sent 1 + MAX_RETRY_COUNT requests, every one answered with
\* a status of 500 or more, is resolved with the fallback
C37_Witness ==
    \E r \in DOMAIN requests :
        /\ requests[r].sent = 1 + MAX_RETRY_COUNT
        /\ requests[r].response = "5xx"
        /\ requests[r].pc = "done"
        /\ requests[r].answer = "fallback"

\* ------------------------------------------------------------------------
\* Claims about the furigana synthesizers
\* ------------------------------------------------------------------------

\* C25: a synthesizer emits a reading for a token only if the token has a
\* reading, the reading differs from the surface form, and the surface form
\* contains a kanji.
C25_ReadingOnlyForKanji ==
    \A i \in DOMAIN furiganaOutput.items :
        furiganaOutput.items[i].furigana # Undefined
            => /\ ~Falsy(tokenInput[i].reading)
               /\ tokenInput[i].reading # tokenInput[i].surface_form
               /\ KANJI_REGEX_test(tokenInput[i].surface_form)

====
